---------------------------- MODULE Spec2Model ----------------------------
(***************************************************************************)
(* modular-body: the request dispatcher (mediaTypeParser), the streaming   *)
(* decode engine (rawBodyParser) and the middleware wrapper (getBody,      *)
(* readStreamCallback) of src/src/bodyParser.ts, with the matching helpers *)
(* of bufferEncoding.ts (src/unnamed/part_000), decompressStream.ts        *)
(* (src/unnamed/part_001) and mediaTypes.ts.                               *)
(*                                                                         *)
(* Code is translated in a functional style: the whole program state is    *)
(* gathered in a record w (see World), every function of the source is an  *)
(* operator from w to the next w, and an action applies the operator of    *)
(* the handler the event fires.  Sequencing of statements is LET nesting.  *)
(***************************************************************************)
EXTENDS Integers, Sequences, FiniteSets, TLC

VARIABLES
  config,      \* the middleware built by bodyParser(): resolved parsers and registries
  requests,    \* per request: method and headers (never written by the program)
  reqState,    \* per request: the IncomingMessage stream, req._body and req.body
  engines,     \* per middleware invocation: the closure state of rawBodyParser
  calls,       \* per middleware invocation: what was done with next and the callback
  decoder,     \* pending bytes of the StringDecoder instance of the 'utf-8' encoder
  ticks,       \* process.nextTick queue: engines whose invokeCallback is deferred
  caller       \* the code that calls bodyParser(): its argument objects and its position

vars == <<config, requests, reqState, engines, calls, decoder, ticks, caller>>

-----------------------------------------------------------------------------
(* Bounds of the model.                                                    *)

MaxRequests == 2
MaxInvocations == 2
MaxChunks == 3
MaxChunkLen == 2
SmallLimit == 1
HighWaterMark == 1

Reqs == 1..MaxRequests
Engs == 1..MaxInvocations

-----------------------------------------------------------------------------
(* JavaScript values.                                                      *)

UNDEF == "undefined"
NULL == -1
NoError == [status |-> 0, type |-> "none"]

\* http-errors createError(status, message, props): an error with that status
\* and props.type (absent: "undefined")
createError(status, type) == [status |-> status, type |-> type]

\* createError(400, error) handing on the error as it is, without a status
createErrorFromUnchanged(status, error) == error

\* createError(400, error) of readStreamCallback: http-errors keeps the given
\* error object and its own status; 400 is used when it has none (status 0)
createErrorFrom(status, error) ==
  [error EXCEPT !.status = IF error.status # 0 THEN error.status ELSE status]

\* String.prototype.toLowerCase on the strings that occur
toLowerCase(s) ==
  CASE s = "UTF-8" -> "utf-8"
    [] s = "GZIP" -> "gzip"
    [] s = "X-A" -> "x-a"
    [] OTHER -> s

\* parseInt on the Content-Length values that occur; NaN is -2
parseInt(s) ==
  CASE s = "0" -> 0
    [] s = "1" -> 1
    [] s = "2" -> 2
    [] s = "3" -> 3
    [] s = "4" -> 4
    [] OTHER -> -2

\* req.headers[key]: Node stores every header under its lower-cased name
Header(rq, key) == IF key \in DOMAIN rq.headers THEN rq.headers[key] ELSE UNDEF

Includes(seq, x) == \E i \in 1..Len(seq) : seq[i] = x

RECURSIVE Flatten(_)
Flatten(seqs) == IF seqs = <<>> THEN <<>> ELSE Head(seqs) \o Flatten(Tail(seqs))

\* the elements of seq at the indices in keep, in their order
Pick(seq, keep) ==
  LET rank(i) == Cardinality({j \in keep : j <= i})
  IN  [k \in 1..Cardinality(keep) |-> seq[CHOOSE i \in keep : rank(i) = k]]

\* seq.filter((x) => kept.includes(x)) and seq.filter((x) => !dropped.includes(x))
Keeping(seq, kept) == Pick(seq, {i \in 1..Len(seq) : Includes(kept, seq[i])})

Excluding(seq, dropped) == Pick(seq, {i \in 1..Len(seq) : ~Includes(dropped, seq[i])})

RECURSIVE SeqOfSet(_)
SeqOfSet(S) == IF S = {} THEN <<>>
               ELSE LET x == CHOOSE y \in S : TRUE IN <<x>> \o SeqOfSet(S \ {x})

-----------------------------------------------------------------------------
(* The content-type package: contentType.parse(req).                       *)

\* the Content-Type header values of the model and what content-type makes of them
ContentTypeTable ==
  [ct \in {"application/json", "application/json; charset=UTF-8",
           "application/json; charset=latin1", "application/json; charset=koi8-r",
           "application/json; charset=x-stream", "application/json; charset=x-whole",
           "text/xml", "application/octet-stream"} |->
     CASE ct = "application/json" ->
            [type |-> <<"application", "json">>, charset |-> UNDEF]
       [] ct = "application/json; charset=UTF-8" ->
            [type |-> <<"application", "json">>, charset |-> "UTF-8"]
       [] ct = "application/json; charset=latin1" ->
            [type |-> <<"application", "json">>, charset |-> "latin1"]
       [] ct = "application/json; charset=koi8-r" ->
            [type |-> <<"application", "json">>, charset |-> "koi8-r"]
       [] ct = "application/json; charset=x-stream" ->
            [type |-> <<"application", "json">>, charset |-> "x-stream"]
       [] ct = "application/json; charset=x-whole" ->
            [type |-> <<"application", "json">>, charset |-> "x-whole"]
       [] ct = "text/xml" ->
            [type |-> <<"text", "xml">>, charset |-> UNDEF]
       [] OTHER ->
            [type |-> <<"application", "octet-stream">>, charset |-> UNDEF]]

\* contentType.parse throws when the content-type header is missing or malformed
contentTypeParseThrows(rq) == Header(rq, "content-type") \notin DOMAIN ContentTypeTable

contentTypeParse(rq) == ContentTypeTable[Header(rq, "content-type")]

-----------------------------------------------------------------------------
(* mediaTypes.ts                                                           *)

\* a '*' of a media type identifier is stored as null in the template
WILDCARD == "null"

matchType(mediaTypeTemplate, mediaType) ==
  /\ (mediaTypeTemplate[1] = WILDCARD \/ mediaTypeTemplate[1] = mediaType[1])
  /\ (mediaTypeTemplate[2] = WILDCARD \/ mediaTypeTemplate[2] = mediaType[2])

\* A MediaTypeFunction among the matchers is written <<PREDICATE, outcome>>,
\* outcome being what the call of the function gives: "accepts" (true),
\* "rejects" (false) or "throws"; a MediaTypeTemplate is a pair of names
PREDICATE == "function"

IsPredicate(mediaTypeMatcher) == mediaTypeMatcher[1] = PREDICATE

\* Array.isArray(mediaTypeMatcher) ? matchType(mediaTypeMatcher, mediaType) : mediaTypeMatcher(mediaType)
Matched(mediaTypeMatcher, mediaType) ==
  IF IsPredicate(mediaTypeMatcher) THEN mediaTypeMatcher[2] = "accepts"
  ELSE matchType(mediaTypeMatcher, mediaType)

\* the matchers mediaTypeMatchers.some(...) gets to: those after which no
\* earlier one has matched or thrown
ReachedMatchers(mediaTypeMatchers, mediaType) ==
  {i \in 1..Len(mediaTypeMatchers) :
     \A j \in 1..(i - 1) :
       /\ ~Matched(mediaTypeMatchers[j], mediaType)
       /\ ~(IsPredicate(mediaTypeMatchers[j]) /\ mediaTypeMatchers[j][2] = "throws")}

\* the call of matchAnyType ends with the exception of a MediaTypeFunction
matchAnyTypeThrows(mediaTypeMatchers, mediaType) ==
  \E i \in ReachedMatchers(mediaTypeMatchers, mediaType) :
    IsPredicate(mediaTypeMatchers[i]) /\ mediaTypeMatchers[i][2] = "throws"

matchAnyType(mediaTypeMatchers, mediaType) ==
  \E i \in ReachedMatchers(mediaTypeMatchers, mediaType) :
    Matched(mediaTypeMatchers[i], mediaType)

-----------------------------------------------------------------------------
(* bufferEncoding.ts (src/unnamed/part_000)                                *)

nodeBufferEncodings ==
  <<"utf-8", "utf8", "ucs-2", "ucs2", "utf16le", "latin1", "ascii", "base64",
    "base64url", "hex", "binary">>

\* charsetEncodings and inflate are true or an array of names (encodings may
\* be undefined too): [kind |-> "true" | "list" | "undefined", list |-> <<..>>]
True == [kind |-> "true", list |-> <<>>]
Undefined == [kind |-> "undefined", list |-> <<>>]
List(names) == [kind |-> "list", list |-> names]

matchCharsetEncoding(charsetEncodings, charset, availableBufferEncodingNames, defaultEncoding) ==
  LET defaultCharset == IF charset # UNDEF THEN charset ELSE defaultEncoding
  IN  IF charsetEncodings.kind = "undefined" /\ defaultCharset = UNDEF THEN TRUE
      ELSE IF charsetEncodings.kind = "undefined" \/ defaultCharset = UNDEF THEN FALSE
      ELSE IF charsetEncodings.kind = "true"
           THEN Includes(availableBufferEncodingNames, defaultCharset)
      ELSE Includes(charsetEncodings.list, defaultCharset)

\* getEncodingVariations() without user encoders: the built-in groups
encodingVariationsDefault(name) ==
  CASE name \in {"utf8", "utf-8"} -> <<"utf-8", "utf8">>
    [] name \in {"ucs2", "ucs-2"} -> <<"ucs-2", "ucs2">>
    [] OTHER -> <<name>>

\* [...new Set(seq)]: the first occurrence of every element, in order
Dedupe(seq) == Pick(seq, {i \in 1..Len(seq) : \A j \in 1..(i - 1) : seq[j] # seq[i]})

\* names.flatMap((name) => encodingVariations[name] || [name])
FlatMapVariations(names) ==
  LET variations(i) == encodingVariationsDefault(names[i])
      Before(i) == Cardinality(UNION {{j} \X (1..Len(variations(j))) : j \in 1..(i - 1)})
  IN  [k \in 1..Before(Len(names) + 1) |->
         LET i == CHOOSE i \in 1..Len(names) :
                    Before(i) < k /\ k <= Before(i) + Len(variations(i))
         IN  variations(i)[k - Before(i)]]

\* the names some parser refers to: suppliedEncodingNames of getAvailableBufferEncodings
RECURSIVE suppliedEncodingNamesOf(_)
suppliedEncodingNamesOf(parsers) ==
  IF parsers = <<>> THEN <<>>
  ELSE LET parser == Head(parsers)
           own == IF parser.encodings.kind = "undefined" /\ parser.defaultEncoding = UNDEF
                  THEN <<>>
                  ELSE (IF parser.defaultEncoding # UNDEF
                        THEN <<parser.defaultEncoding>> ELSE <<>>)
                       \o (IF parser.encodings.kind = "list"
                           THEN parser.encodings.list ELSE nodeBufferEncodings)
       IN  own \o suppliedEncodingNamesOf(Tail(parsers))

\* The user's BufferEncoders of the model, each registered under one name of
\* its own: a ChunkedBufferEncoder (onData, onEnd, reduce) and an
\* UnchunkedBufferEncoder (transform).  Both reject the byte "x": onData of
\* the first and transform of the second throw on a buffer that holds it.
UserBufferEncodings ==
  <<[encodings |-> <<"x-stream">>, chunked |-> TRUE],
    [encodings |-> <<"x-whole">>, chunked |-> FALSE]>>

\* bufferEncodings.flatMap((bufferEncoding) => bufferEncoding.encodings)
suppliedBufferEncodingsOf(bufferEncodings) ==
  Flatten([i \in 1..Len(bufferEncodings) |-> bufferEncodings[i].encodings])

\* availableBufferEncodingNames of getAvailableBufferEncodings: the native
\* names (one encoder per alias group) and the user's names, those of them
\* that a parser names.  nodeEncodingVariations is what getEncodingVariations
\* returns without and with user encoders.
getAvailableBufferEncodingNames(parsers, bufferEncodings) ==
  LET nodeEncodingVariations == IF bufferEncodings = <<>> THEN <<"utf8", "ucs2">>
                                ELSE <<"utf-8", "ucs-2">>
      suppliedBufferEncodings == suppliedBufferEncodingsOf(bufferEncodings)
      nativeNodeEncodings == Excluding(nodeBufferEncodings,
                                       nodeEncodingVariations \o suppliedBufferEncodings)
      suppliedEncodingNames == Dedupe(FlatMapVariations(suppliedEncodingNamesOf(parsers)))
  IN  Keeping(Dedupe(FlatMapVariations(nativeNodeEncodings) \o suppliedBufferEncodings),
              suppliedEncodingNames)

\* 'onData' in bufferEncoding for the encoder registered under a name: the
\* native StringDecoder encoders are the chunked kind, a user's encoder
\* (found first by availableBufferEncodingsArray only if no native one has
\* the name) is what it was declared
IsChunkedEncoder(c, name) ==
  \/ Includes(nodeBufferEncodings, name)
       /\ ~Includes(suppliedBufferEncodingsOf(c.bufferEncodings), name)
  \/ \E i \in 1..Len(c.bufferEncodings) :
       Includes(c.bufferEncodings[i].encodings, name) /\ c.bufferEncodings[i].chunked

\* whether the encoder registered under a name throws on these bytes
encoderThrows(c, name, bytes) ==
  /\ Includes(suppliedBufferEncodingsOf(c.bufferEncodings), name)
  /\ \E i \in 1..Len(bytes) : bytes[i] = "x"

-----------------------------------------------------------------------------
(* decompressStream.ts (src/unnamed/part_001)                              *)

matchContentEncoding(contentEncoding, inflate, globalDecompressorNames) ==
  IF contentEncoding = "identity" THEN TRUE
  ELSE LET decompressors == IF inflate.kind = "true" THEN globalDecompressorNames
                            ELSE inflate.list
       IN  Includes(decompressors, contentEncoding)

standardDecompressors == <<"deflate", "gzip", "br">>

RECURSIVE inflateNamesOf(_)
inflateNamesOf(parsers) ==
  IF parsers = <<>> THEN <<>>
  ELSE (IF Head(parsers).inflate.kind = "list" THEN Head(parsers).inflate.list ELSE <<>>)
       \o inflateNamesOf(Tail(parsers))

\* availableDecompressorNames of getAvailableDecompressors(parsers, decompressors),
\* decompressors being the names of the user's factories
getAvailableDecompressorNames(parsers, decompressors) ==
  LET allowsAllDecompressors == \E i \in 1..Len(parsers) : parsers[i].inflate.kind = "true"
      suppliedDecompressorNames == Dedupe(inflateNamesOf(parsers))
      all == standardDecompressors \o decompressors
      keys == Dedupe(IF allowsAllDecompressors THEN all
                     ELSE Keeping(all, suppliedDecompressorNames))
  IN  (IF allowsAllDecompressors \/ Includes(suppliedDecompressorNames, "identity")
       THEN <<"identity">> ELSE <<>>) \o keys

-----------------------------------------------------------------------------
(* The StringDecoder of the native 'utf-8' encoder.  Bytes: "a" is an      *)
(* ASCII byte, "H" the lead byte and "T" the continuation byte of a        *)
(* two-byte character.  Characters: "a", "E" (the two-byte character) and  *)
(* "?" (U+FFFD, what the decoder writes for a byte it cannot place).       *)

RECURSIVE utf8Decode(_)
utf8Decode(bytes) ==
  IF bytes = <<>> THEN [out |-> <<>>, pending |-> <<>>]
  ELSE IF Head(bytes) = "a"
       THEN LET rest == utf8Decode(Tail(bytes))
            IN  [rest EXCEPT !.out = <<"a">> \o @]
  ELSE IF Head(bytes) = "T"
       THEN LET rest == utf8Decode(Tail(bytes))
            IN  [rest EXCEPT !.out = <<"?">> \o @]
  ELSE IF Len(bytes) = 1 THEN [out |-> <<>>, pending |-> bytes]
  ELSE IF bytes[2] = "T"
       THEN LET rest == utf8Decode(Tail(Tail(bytes)))
            IN  [rest EXCEPT !.out = <<"E">> \o @]
  ELSE LET rest == utf8Decode(Tail(bytes))
       IN  [rest EXCEPT !.out = <<"?">> \o @]

\* decoder.write(buffer): the bytes kept from the last write come first
decoderWrite(pending, buffer) == utf8Decode(pending \o buffer)

\* decoder.end(): an incomplete character is flushed as U+FFFD
decoderEnd(pending) ==
  [out |-> IF pending = <<>> THEN <<>> ELSE <<"?">>, pending |-> <<>>]

\* a StringDecoder of a single-byte charset keeps nothing between writes
latin1Char(byte) == CASE byte = "H" -> "h" [] byte = "T" -> "t" [] OTHER -> byte
latin1Decode(buffer) == [i \in 1..Len(buffer) |-> latin1Char(buffer[i])]

\* the encoders of one alias group are one object: availableBufferEncodings
\* maps 'utf8' and 'utf-8' to the encoder built for 'utf-8'
UsesUtf8Decoder(name) == name \in {"utf-8", "utf8"}

-----------------------------------------------------------------------------
(* Values of req.body and of the callback's body argument.                 *)

NoBody == [kind |-> "undefined", value |-> <<>>]
EmptyObject == [kind |-> "empty", value |-> <<"{}">>]
EmptyString == [kind |-> "empty", value |-> <<"''">>]
EmptyBuffer == [kind |-> "empty", value |-> <<"Buffer()">>]

\* what the thrown value of a parser or verify function carries
PlainThrown == [status |-> 0, type |-> UNDEF]
CustomThrown == [status |-> 413, type |-> "parameters.too.many"]
\* an error with a type of the user's own and no status
OwnTypeThrown == [status |-> 0, type |-> "foo.bar"]
Thrown == {NoError, PlainThrown, CustomThrown, OwnTypeThrown}

-----------------------------------------------------------------------------
(* bodyParser(): construction.                                             *)

NoMediaType == <<>>

\* the PatchedParser joinParserConfigurations makes of a bare default media
\* type name (defaultMediaTypeParsers and the global options)
DefaultParser(name, limit, inflate, requireContentLength) ==
  [matcher |-> CASE name = "application/json" -> << <<"application", "json">> >>
                 [] name = "text/plain" -> << <<"text", "plain">> >>
                 [] name = "application/x-www-form-urlencoded" ->
                      << <<"application", "x-www-form-urlencoded">> >>
                 [] OTHER -> << <<"application", "octet-stream">> >>,
   encodings |-> IF name = "application/octet-stream" THEN Undefined ELSE True,
   defaultEncoding |-> IF name = "application/octet-stream" THEN UNDEF ELSE "utf-8",
   parser |-> name \in {"application/json", "application/x-www-form-urlencoded"},
   emptyResponse |-> CASE name = "text/plain" -> EmptyString
                       [] name = "application/octet-stream" -> EmptyBuffer
                       [] OTHER -> EmptyObject,
   limit |-> limit,
   inflate |-> inflate,
   verify |-> FALSE,
   requireContentLength |-> requireContentLength]

DefaultParsers(limit, inflate, requireContentLength) ==
  <<DefaultParser("application/x-www-form-urlencoded", limit, inflate, requireContentLength),
    DefaultParser("application/json", limit, inflate, requireContentLength),
    DefaultParser("text/plain", limit, inflate, requireContentLength),
    DefaultParser("application/octet-stream", limit, inflate, requireContentLength)>>

\* an option given as a string: a limit such as '20kb', an inflate name
LimitString(number, unit) == [kind |-> "string", number |-> number, unit |-> unit]
LimitNumber(number) == [kind |-> "number", number |-> number, unit |-> ""]
Name(name) == [kind |-> "string", list |-> <<name>>]

\* bytes where the unit is a power of 1000
bytesDecimal(limit) ==
  limit.number * (CASE limit.unit = "kb" -> 1000
                    [] limit.unit = "mb" -> 1000 * 1000
                    [] OTHER -> 1)

\* bytes(defaultLimit) of the bytes package: the number times the unit, where
\* kb is 2^10 and mb 2^20
bytes(limit) ==
  limit.number * (CASE limit.unit = "kb" -> 1024
                    [] limit.unit = "mb" -> 1024 * 1024
                    [] OTHER -> 1)

getInflate(inflate) == IF inflate.kind = "string" THEN List(inflate.list) ELSE inflate

\* the default of the parameter parserConfigurations
DefaultParserConfigurations ==
  <<"application/x-www-form-urlencoded", "application/json", "text/plain",
    "application/octet-stream">>

Range(seq) == {seq[i] : i \in 1..Len(seq)}

\* the encodingVariations record before any user encoder is looked at
builtinEncodingVariations ==
  [name \in {"utf8", "utf-8", "ucs2", "ucs-2"} |->
     IF name \in {"utf8", "utf-8"} THEN <<"utf-8", "utf8">> ELSE <<"ucs-2", "ucs2">>]

\* nodeEncodingVariation.replace('-', '')
removeDash(name) ==
  CASE name = "utf-8" -> "utf8"
    [] name = "ucs-2" -> "ucs2"
    [] OTHER -> name

\* getEncodingVariations(bufferEncodings): the record of alias groups (a
\* function on its keys) and the native names left out of the registry; <<>>
\* stands for an undefined bufferEncodings.  The names of the user's encoders
\* are taken as they are written.
getEncodingVariations(bufferEncodings) ==
  LET addedBufferEncodings == suppliedBufferEncodingsOf(bufferEncodings)
      names == <<"utf8", "utf-8", "ucs2", "ucs-2">>
      grouped == {i \in 1..Len(bufferEncodings) : Len(bufferEncodings[i].encodings) > 1}
      groupedNames == UNION {Range(bufferEncodings[i].encodings) : i \in grouped}
      keys == (DOMAIN builtinEncodingVariations \ Range(addedBufferEncodings))
                \cup groupedNames
      variations(key) ==
        IF key \in groupedNames
        THEN bufferEncodings[CHOOSE i \in grouped :
                               key \in Range(bufferEncodings[i].encodings)].encodings
        ELSE Excluding(builtinEncodingVariations[key], addedBufferEncodings)
      left == Excluding(names, addedBufferEncodings)
      singleNodeEncodingVariations == [i \in 1..Len(left) |-> removeDash(left[i])]
  IN  IF bufferEncodings = <<>>
      THEN [thrown |-> UNDEF,
            encodingVariations |-> builtinEncodingVariations,
            nodeEncodingVariations |-> Dedupe([i \in 1..Len(names) |-> removeDash(names[i])])]
      ELSE IF Len(addedBufferEncodings) > Cardinality(Range(addedBufferEncodings))
      THEN [thrown |-> "Same encoding is supplied more than one time",
            encodingVariations |-> builtinEncodingVariations,
            nodeEncodingVariations |-> <<>>]
      ELSE [thrown |-> UNDEF,
            encodingVariations |->
              [key \in {k \in keys : Len(variations(k)) >= 2} |-> variations(key)],
            nodeEncodingVariations |-> Excluding(Dedupe(left), singleNodeEncodingVariations)]

\* encodingVariations[encoding] ? encodingVariations[encoding] : [encoding]
VariationsOf(encodingVariations, encoding) ==
  IF encoding \in DOMAIN encodingVariations THEN encodingVariations[encoding]
  ELSE <<encoding>>

\* names.flatMap((name) => encodingVariations[name] ? encodingVariations[name] : [name])
ExpandVariations(names, encodingVariations) ==
  LET variations(i) == VariationsOf(encodingVariations, names[i])
      Before(i) == Cardinality(UNION {{j} \X (1..Len(variations(j))) : j \in 1..(i - 1)})
  IN  [k \in 1..Before(Len(names) + 1) |->
         LET i == CHOOSE i \in 1..Len(names) :
                    Before(i) < k /\ k <= Before(i) + Len(variations(i))
         IN  variations(i)[k - Before(i)]]

normalizeEncodings(encodings, encodingVariations) ==
  Dedupe(ExpandVariations([i \in 1..Len(encodings) |-> toLowerCase(encodings[i])],
                          encodingVariations))

\* A ParserConfiguration, or a bare DefaultMediaType (kind "name").  A
\* property that is not set is "unset" (a record of kind "unset" where the
\* value is a record): parser is "unset", "null" or "fn"; encodings is of kind
\* "unset", "null", "false", "true", "string" or "list"; limit of kind
\* "unset", "number" or "string"; inflate of kind "unset", "true", "string"
\* or "list"; requireContentLength "unset", "true" or "false".
Unset == [kind |-> "unset", list |-> <<>>]
Null == [kind |-> "null", list |-> <<>>]
False == [kind |-> "false", list |-> <<>>]
UnsetLimit == [kind |-> "unset", number |-> 0, unit |-> ""]
UnsetValue == [kind |-> "unset", value |-> <<>>]
NullValue == [kind |-> "null", value |-> <<>>]
UserValue == [kind |-> "empty", value |-> <<"user">>]

ParserConfiguration(matcher) ==
  [kind |-> "object", matcher |-> matcher, parser |-> "unset",
   emptyResponse |-> UnsetValue, encodings |-> Unset, defaultEncoding |-> UNDEF,
   limit |-> UnsetLimit, inflate |-> Unset, verify |-> FALSE,
   requireContentLength |-> "unset"]

DefaultMediaType(name) == [ParserConfiguration(name) EXCEPT !.kind = "name"]

\* getEncodings(parser, encodingVariations, defaultMediaTypeDefaultEncoding):
\* the defaultEncoding and encodings of the resolved configuration, or thrown
getEncodings(parser, encodingVariations, defaultMediaTypeDefaultEncoding) ==
  LET set == parser.defaultEncoding # UNDEF
      own == IF set THEN <<parser.defaultEncoding>> ELSE <<>>
  IN  IF parser.encodings.kind = "true"
      THEN [thrown |-> UNDEF, defaultEncoding |-> parser.defaultEncoding, encodings |-> True]
      ELSE IF parser.encodings.kind \in {"unset", "null", "false"}
      THEN IF set /\ defaultMediaTypeDefaultEncoding = UNDEF
           THEN IF parser.encodings.kind \in {"false", "null"}
                THEN [thrown |-> "When defaultEncoding is set, encoding can not be false or null.",
                      defaultEncoding |-> UNDEF, encodings |-> Undefined]
                ELSE [thrown |-> UNDEF, defaultEncoding |-> parser.defaultEncoding,
                      encodings |-> List(normalizeEncodings(own, encodingVariations))]
           ELSE IF defaultMediaTypeDefaultEncoding # UNDEF /\ parser.encodings.kind = "unset"
           THEN [thrown |-> UNDEF, defaultEncoding |-> defaultMediaTypeDefaultEncoding,
                 encodings |-> True]
           ELSE [thrown |-> UNDEF, defaultEncoding |-> UNDEF, encodings |-> Undefined]
      ELSE [thrown |-> UNDEF, defaultEncoding |-> parser.defaultEncoding,
            encodings |-> List(normalizeEncodings(Dedupe(own \o parser.encodings.list),
                                                  encodingVariations))]

\* getMediaTypeMatchers(identifier) on the identifiers of the model
getMediaTypeMatchers(identifier) ==
  << CASE identifier = "application/json" -> <<"application", "json">>
       [] identifier = "text/plain" -> <<"text", "plain">>
       [] identifier = "application/x-www-form-urlencoded" ->
            <<"application", "x-www-form-urlencoded">>
       [] identifier = "application/octet-stream" -> <<"application", "octet-stream">>
       [] identifier = "text/xml" -> <<"text", "xml">>
       [] OTHER -> <<WILDCARD, WILDCARD>> >>

\* defaultMediaTypeParsers[name]: parser, defaultEncoding and emptyResponse
defaultMediaTypeParsers(name) == DefaultParser(name, NULL, True, FALSE)

\* the limit of a ParserConfiguration or of the options, in bytes
LimitOf(limit) == IF limit.kind = "string" THEN bytes(limit) ELSE limit.number

\* what the callback of the map in joinParserConfigurations throws on an entry
joinParserConfigurationThrown(parser, encodingVariations) ==
  IF parser.kind = "name" THEN UNDEF
  ELSE getEncodings(parser, encodingVariations,
                    IF parser.matcher \in Range(DefaultParserConfigurations)
                    THEN DefaultParser(parser.matcher, NULL, True, FALSE).defaultEncoding
                    ELSE UNDEF).thrown

\* joinParserConfiguration where parser: null leaves the default parser in place
joinParserConfigurationKeepingParser(parser, limit, inflate, encodingVariations, requireContentLength) ==
  LET isDefault == parser.matcher \in Range(DefaultParserConfigurations)
      defaultParser == defaultMediaTypeParsers(parser.matcher)
      encodings == getEncodings(parser, encodingVariations,
                                IF isDefault THEN defaultParser.defaultEncoding ELSE UNDEF)
      ownInflate == IF parser.inflate.kind = "true" THEN True
                    ELSE List(parser.inflate.list)
  IN  IF parser.kind = "name"
      THEN [DefaultParser(parser.matcher, limit, getInflate(inflate), requireContentLength)
              EXCEPT !.matcher = getMediaTypeMatchers(parser.matcher)]
      ELSE IF isDefault
      THEN [matcher |-> getMediaTypeMatchers(parser.matcher),
            encodings |-> encodings.encodings,
            defaultEncoding |-> encodings.defaultEncoding,
            parser |-> parser.parser = "fn"
                         \/ defaultParser.parser,
            emptyResponse |-> IF parser.emptyResponse.kind = "null" THEN NoBody
                              ELSE IF parser.emptyResponse.kind = "unset"
                              THEN defaultParser.emptyResponse
                              ELSE parser.emptyResponse,
            limit |-> IF parser.limit.kind = "string"
                           \/ (parser.limit.kind = "number" /\ parser.limit.number # 0)
                      THEN LimitOf(parser.limit) ELSE limit,
            inflate |-> IF parser.inflate.kind # "unset" THEN ownInflate
                        ELSE getInflate(inflate),
            verify |-> parser.verify,
            requireContentLength |-> IF parser.requireContentLength # "unset"
                                     THEN parser.requireContentLength = "true"
                                     ELSE requireContentLength]
      ELSE [matcher |-> getMediaTypeMatchers(parser.matcher),
            encodings |-> encodings.encodings,
            defaultEncoding |-> encodings.defaultEncoding,
            parser |-> parser.parser = "fn",
            emptyResponse |-> IF parser.emptyResponse.kind \in {"null", "unset"} THEN NoBody
                              ELSE parser.emptyResponse,
            limit |-> IF parser.limit.kind # "unset" THEN LimitOf(parser.limit) ELSE limit,
            inflate |-> IF parser.inflate.kind # "unset" THEN ownInflate
                        ELSE getInflate(inflate),
            verify |-> parser.verify,
            requireContentLength |-> IF parser.requireContentLength = "true" THEN TRUE
                                     ELSE requireContentLength]

\* the callback of the map in joinParserConfigurations: the PatchedParser made
\* of one entry
joinParserConfiguration(parser, limit, inflate, encodingVariations, requireContentLength) ==
  LET isDefault == parser.matcher \in Range(DefaultParserConfigurations)
      defaultParser == defaultMediaTypeParsers(parser.matcher)
      encodings == getEncodings(parser, encodingVariations,
                                IF isDefault THEN defaultParser.defaultEncoding ELSE UNDEF)
      ownInflate == IF parser.inflate.kind = "true" THEN True
                    ELSE List(parser.inflate.list)
  IN  IF parser.kind = "name"
      THEN [DefaultParser(parser.matcher, limit, getInflate(inflate), requireContentLength)
              EXCEPT !.matcher = getMediaTypeMatchers(parser.matcher)]
      ELSE IF isDefault
      THEN [matcher |-> getMediaTypeMatchers(parser.matcher),
            encodings |-> encodings.encodings,
            defaultEncoding |-> encodings.defaultEncoding,
            parser |-> parser.parser = "fn"
                         \/ (parser.parser = "unset" /\ defaultParser.parser),
            emptyResponse |-> IF parser.emptyResponse.kind = "null" THEN NoBody
                              ELSE IF parser.emptyResponse.kind = "unset"
                              THEN defaultParser.emptyResponse
                              ELSE parser.emptyResponse,
            limit |-> IF parser.limit.kind = "string"
                           \/ (parser.limit.kind = "number" /\ parser.limit.number # 0)
                      THEN LimitOf(parser.limit) ELSE limit,
            inflate |-> IF parser.inflate.kind # "unset" THEN ownInflate
                        ELSE getInflate(inflate),
            verify |-> parser.verify,
            requireContentLength |-> IF parser.requireContentLength # "unset"
                                     THEN parser.requireContentLength = "true"
                                     ELSE requireContentLength]
      ELSE [matcher |-> getMediaTypeMatchers(parser.matcher),
            encodings |-> encodings.encodings,
            defaultEncoding |-> encodings.defaultEncoding,
            parser |-> parser.parser = "fn",
            emptyResponse |-> IF parser.emptyResponse.kind \in {"null", "unset"} THEN NoBody
                              ELSE parser.emptyResponse,
            limit |-> IF parser.limit.kind # "unset" THEN LimitOf(parser.limit) ELSE limit,
            inflate |-> IF parser.inflate.kind # "unset" THEN ownInflate
                        ELSE getInflate(inflate),
            verify |-> parser.verify,
            requireContentLength |-> IF parser.requireContentLength = "true" THEN TRUE
                                     ELSE requireContentLength]

\* joinParserConfigurations: undefined stands for the four default media types
joinParserConfigurations(parserConfigurations, defaultLimit, inflate, encodingVariations, requireContentLength) ==
  LET entries == IF parserConfigurations.kind = "undefined"
                 THEN [i \in 1..Len(DefaultParserConfigurations) |->
                         DefaultMediaType(DefaultParserConfigurations[i])]
                 ELSE parserConfigurations.list
      limit == LimitOf(defaultLimit)
  IN  [i \in 1..Len(entries) |->
         joinParserConfiguration(entries[i], limit, inflate, encodingVariations,
                                 requireContentLength)]

\* the defaults of the options of bodyParser
DefaultOptions ==
  [defaultLimit |-> LimitString(20, "kb"), inflate |-> Name("identity"),
   requireContentLength |-> FALSE]

\* parsers.find(({matcher}) => matchAnyType(matcher, mediaType)): the index of
\* the first parser whose matcher matches, 0 when there is none
FindIndex(parsers, mediaType) ==
  IF \E i \in 1..Len(parsers) : matchAnyType(parsers[i].matcher, mediaType)
  THEN CHOOSE i \in 1..Len(parsers) :
         /\ matchAnyType(parsers[i].matcher, mediaType)
         /\ \A j \in 1..(i - 1) : ~matchAnyType(parsers[j].matcher, mediaType)
  ELSE 0

\* bodyParser(options, parserConfigurations, bufferEncodings, decompressors) on
\* the resolved parsers: the registries and the default content type's encoding
bodyParser(requireContentLength, defaultContentType, parsers, bufferEncodings, decompressors) ==
  LET defaultParser == IF defaultContentType = NoMediaType THEN 0
                       ELSE FindIndex(parsers, defaultContentType)
  IN  [parsers |-> parsers,
       availableDecompressorNames |-> getAvailableDecompressorNames(parsers, decompressors),
       bufferEncodings |-> bufferEncodings,
       availableBufferEncodingNames |->
         getAvailableBufferEncodingNames(parsers, bufferEncodings),
       requireContentLength |-> requireContentLength,
       defaultContentTypeEncoding |->
         IF defaultParser = 0 THEN UNDEF ELSE parsers[defaultParser].defaultEncoding,
       defaultContentType |-> defaultContentType]

\* getAvailableDecompressors where no name is ever reported as not supplied
notAvailableDecompressorsNone(parsers, decompressors) == <<>>

\* notAvailableDecompressors of getAvailableDecompressors: the names of the
\* inflate lists that are neither standard nor supplied; not empty: it throws
notAvailableDecompressors(parsers, decompressors) ==
  Excluding(Dedupe(inflateNamesOf(parsers)),
            getAvailableDecompressorNames(parsers, decompressors))

\* getAvailableBufferEncodings where the names with an encoder are neither
\* filtered by the names of the parsers nor checked against them
getAvailableBufferEncodingsUnfiltered(parsers, encodingVariations, nodeEncodingVariations, bufferEncodings) ==
  LET written == suppliedBufferEncodingsOf(bufferEncodings)
      nativeNodeEncodings == Excluding(nodeBufferEncodings, written \o nodeEncodingVariations)
      all == Dedupe(ExpandVariations(nativeNodeEncodings, encodingVariations) \o written)
  IN  [thrown |-> UNDEF, backed |-> all, suppliedEncodingNames |-> <<>>,
       notAvailableEncodings |-> <<>>, availableBufferEncodingNames |-> all]

\* getAvailableBufferEncodings(parsers, encodingVariations,
\* nodeEncodingVariations, bufferEncodings): the names of the registry, the
\* names of the parsers without an encoder, and what it throws
getAvailableBufferEncodings(parsers, encodingVariations, nodeEncodingVariations, bufferEncodings) ==
  LET written == suppliedBufferEncodingsOf(bufferEncodings)
      suppliedBufferEncodings == [i \in 1..Len(written) |-> toLowerCase(written[i])]
      nativeNodeEncodings == Excluding(nodeBufferEncodings,
                                       suppliedBufferEncodings \o nodeEncodingVariations)
      availableBufferEncodingsArray ==
        ExpandVariations(nativeNodeEncodings, encodingVariations) \o written
      suppliedEncodingNames ==
        Dedupe(ExpandVariations(suppliedEncodingNamesOf(parsers), encodingVariations))
      availableBufferEncodingNames ==
        Keeping(Dedupe(availableBufferEncodingsArray), suppliedEncodingNames)
      notAvailableEncodings == Excluding(suppliedEncodingNames, availableBufferEncodingNames)
  IN  [thrown |->
         IF Len(suppliedBufferEncodings) # Cardinality(Range(suppliedBufferEncodings))
         THEN "are defined in multiple BufferEncodings"
         ELSE IF notAvailableEncodings # <<>> THEN "are not supplied"
         ELSE UNDEF,
       backed |-> Dedupe(availableBufferEncodingsArray),
       suppliedEncodingNames |-> suppliedEncodingNames,
       notAvailableEncodings |-> notAvailableEncodings,
       availableBufferEncodingNames |-> availableBufferEncodingNames]

\* {...{defaultLimit: '20kb', inflate: 'identity', requireContentLength: false}, ...options}
MergedOptions(options) ==
  [defaultLimit |-> IF options.defaultLimit.kind = "unset" THEN DefaultOptions.defaultLimit
                    ELSE options.defaultLimit,
   inflate |-> IF options.inflate.kind = "unset" THEN DefaultOptions.inflate
               ELSE options.inflate,
   requireContentLength |-> IF options.requireContentLength = "unset"
                            THEN DefaultOptions.requireContentLength
                            ELSE options.requireContentLength = "true"]

\* what is left of a construction that threw; where getAvailableBufferEncodings
\* threw, the parsers and the names with an encoder it had in hand are kept
NoMiddleware(thrown, missing) ==
  [parsers |-> <<>>, availableDecompressorNames |-> <<>>, bufferEncodings |-> <<>>,
   availableBufferEncodingNames |-> <<>>, requireContentLength |-> FALSE,
   defaultContentTypeEncoding |-> UNDEF, defaultContentType |-> NoMediaType,
   encodingVariations |-> builtinEncodingVariations, backed |-> <<>>,
   thrown |-> thrown, missing |-> missing]

\* deleteMissingKeys(obj, neededKeys): the keys left in obj, which it changes
deleteMissingKeys(obj, neededKeys) == Keeping(obj, neededKeys)

\* the keys of the map passed as `decompressors` once
\* getAvailableDecompressors(parsers, decompressors) has run
decompressorsLeft(parsers, decompressors) ==
  LET allowsAllDecompressors == \E i \in 1..Len(parsers) : parsers[i].inflate.kind = "true"
      suppliedDecompressorNames == Dedupe(inflateNamesOf(parsers))
  IN  IF allowsAllDecompressors THEN decompressors
      ELSE deleteMissingKeys(decompressors, suppliedDecompressorNames)

\* bodyParser(options, parserConfigurations, bufferEncodings, decompressors)
\* from the caller's arguments: the closure of getBody, or what was thrown
bodyParserOn(options, parserConfigurations, bufferEncodings, decompressors) ==
  LET merged == MergedOptions(options)
      variations == getEncodingVariations(bufferEncodings)
      encodingVariations == variations.encodingVariations
      entries == IF parserConfigurations.kind = "undefined" THEN <<>>
                 ELSE parserConfigurations.list
      joinThrown == {joinParserConfigurationThrown(entries[i], encodingVariations) :
                       i \in 1..Len(entries)} \ {UNDEF}
      parsers == joinParserConfigurations(parserConfigurations, merged.defaultLimit,
                                          merged.inflate, encodingVariations,
                                          merged.requireContentLength)
      missingDecompressors == notAvailableDecompressors(parsers, decompressors)
      encodings == getAvailableBufferEncodings(parsers, encodingVariations,
                                               variations.nodeEncodingVariations,
                                               bufferEncodings)
      defaultContentType == IF options.defaultContentType = "unset" THEN NoMediaType
                            ELSE getMediaTypeMatchers(options.defaultContentType)[1]
      defaultParser == IF defaultContentType = NoMediaType THEN 0
                       ELSE FindIndex(parsers, defaultContentType)
  IN  IF options.defaultContentType = "true"
      THEN NoMiddleware("options.defaultContentType.split is not a function", <<>>)
      ELSE IF variations.thrown # UNDEF THEN NoMiddleware(variations.thrown, <<>>)
      ELSE IF joinThrown # {} THEN NoMiddleware(CHOOSE t \in joinThrown : TRUE, <<>>)
      ELSE IF missingDecompressors # <<>>
      THEN NoMiddleware("The following decompressors in the parse configuration are not supplied",
                        missingDecompressors)
      ELSE IF encodings.thrown # UNDEF
      THEN [NoMiddleware(encodings.thrown, encodings.notAvailableEncodings)
              EXCEPT !.parsers = parsers, !.backed = encodings.backed,
                     !.encodingVariations = encodingVariations]
      ELSE IF defaultContentType # NoMediaType /\ defaultParser = 0
      THEN NoMiddleware("The specified default content type does not match any parser configuration",
                        <<>>)
      ELSE [parsers |-> parsers,
            availableDecompressorNames |-> getAvailableDecompressorNames(parsers, decompressors),
            bufferEncodings |-> bufferEncodings,
            availableBufferEncodingNames |-> encodings.availableBufferEncodingNames,
            requireContentLength |-> merged.requireContentLength,
            defaultContentTypeEncoding |->
              IF defaultParser = 0 THEN UNDEF ELSE parsers[defaultParser].defaultEncoding,
            defaultContentType |-> defaultContentType,
            encodingVariations |-> encodingVariations,
            backed |-> encodings.backed,
            thrown |-> UNDEF, missing |-> <<>>]

\* an options object with no property set
\* the keys of the caller's decompressor map after
\* bodyParser(options, parserConfigurations, bufferEncodings, decompressors):
\* getAvailableDecompressors is reached unless an earlier step threw
decompressorsAfter(options, parserConfigurations, bufferEncodings, decompressors) ==
  LET merged == MergedOptions(options)
      variations == getEncodingVariations(bufferEncodings)
      entries == IF parserConfigurations.kind = "undefined" THEN <<>>
                 ELSE parserConfigurations.list
      joinThrown == {joinParserConfigurationThrown(entries[i], variations.encodingVariations) :
                       i \in 1..Len(entries)} \ {UNDEF}
      parsers == joinParserConfigurations(parserConfigurations, merged.defaultLimit,
                                          merged.inflate, variations.encodingVariations,
                                          merged.requireContentLength)
  IN  IF options.defaultContentType = "true" \/ variations.thrown # UNDEF \/ joinThrown # {}
      THEN decompressors
      ELSE decompressorsLeft(parsers, decompressors)

\* the options getStandardParser(parserConfigurations) and bodyParser.raw hand
\* to bodyParser: defaultContentType true stands for the parser's media type
StandardParserOptions(parserConfigurations, options) ==
  [options EXCEPT !.defaultContentType = IF @ = "true" THEN parserConfigurations ELSE @]

\* bodyParser.json(options, bufferEncodings, decompressors) and its like
getStandardParser(parserConfigurations, options, bufferEncodings, decompressors) ==
  bodyParserOn(StandardParserOptions(parserConfigurations, options),
               List(<<DefaultMediaType(parserConfigurations)>>), bufferEncodings,
               decompressors)

\* an options object that sets nothing; defaultContentType is "unset", "true"
\* (for the parsers of one media type) or the name of a media type
NoOptions ==
  [defaultLimit |-> UnsetLimit, inflate |-> Unset, requireContentLength |-> "unset",
   defaultContentType |-> "unset"]

\* The caller of bodyParser(): pc is "start" before the call and "built" or
\* "thrown" after it; the objects it passes stay in its hands
Caller(pc, options, parserConfigurations, bufferEncodings, decompressors) ==
  [pc |-> pc, options |-> options, parserConfigurations |-> parserConfigurations,
   bufferEncodings |-> bufferEncodings, decompressors |-> decompressors,
   \* the function it called last, and the copies it made of its options
   \* object and its decompressor map before the first call
   via |-> "bodyParser",
   fresh |-> [options |-> options, decompressors |-> decompressors]]

\* A list of three configurations that overlap on application/json
OverlappingParsers ==
  <<[matcher |-> << <<"application", "json">> >>,
     encodings |-> List(<<"latin1">>), defaultEncoding |-> UNDEF,
     parser |-> TRUE, emptyResponse |-> EmptyObject, limit |-> SmallLimit,
     inflate |-> List(<<"gzip">>), verify |-> TRUE, requireContentLength |-> FALSE],
    [matcher |-> << <<"application", WILDCARD>> >>,
     encodings |-> True, defaultEncoding |-> "utf-8",
     parser |-> TRUE, emptyResponse |-> EmptyString, limit |-> SmallLimit,
     inflate |-> List(<<"identity">>), verify |-> TRUE, requireContentLength |-> FALSE],
    [matcher |-> << <<"text", "plain">>, <<WILDCARD, WILDCARD>> >>,
     encodings |-> True, defaultEncoding |-> "utf-8",
     parser |-> FALSE, emptyResponse |-> NoBody, limit |-> NULL,
     inflate |-> List(<<"identity", "gzip">>), verify |-> FALSE,
     requireContentLength |-> FALSE]>>

\* A JSON configuration naming the user's encoders, and requiring the
\* Content-Length header while the global option does not
UserEncodingParsers ==
  <<[matcher |-> << <<"application", "json">> >>,
     encodings |-> List(<<"utf-8", "x-stream", "x-whole">>), defaultEncoding |-> "utf-8",
     parser |-> TRUE, emptyResponse |-> EmptyObject, limit |-> SmallLimit,
     inflate |-> List(<<"identity", "gzip">>), verify |-> TRUE,
     requireContentLength |-> TRUE]>>

\* bodyParser(): no options, no configurations
DefaultMiddleware ==
  bodyParser(DefaultOptions.requireContentLength, NoMediaType,
             joinParserConfigurations(Undefined, DefaultOptions.defaultLimit,
                                      DefaultOptions.inflate,
                                      getEncodingVariations(<<>>).encodingVariations,
                                      DefaultOptions.requireContentLength),
             <<>>, <<>>)

\* The middlewares of the model
Configs ==
  { bodyParser(FALSE, NoMediaType, DefaultParsers(SmallLimit, List(<<"identity">>), FALSE),
               <<>>, <<>>),
    bodyParser(FALSE, NoMediaType, DefaultParsers(SmallLimit, True, FALSE), <<>>, <<"lzw">>),
    bodyParser(FALSE, NoMediaType,
               <<DefaultParser("application/json", SmallLimit, List(<<"gzip">>), FALSE)>>,
               <<>>, <<>>),
    bodyParser(FALSE, <<"application", "json">>,
               DefaultParsers(SmallLimit, List(<<"identity">>), FALSE), <<>>, <<>>),
    bodyParser(TRUE, NoMediaType, DefaultParsers(SmallLimit, List(<<"identity">>), TRUE),
               <<>>, <<>>),
    bodyParser(FALSE, NoMediaType, OverlappingParsers, <<>>, <<>>),
    bodyParser(FALSE, NoMediaType, UserEncodingParsers, UserBufferEncodings, <<>>),
    DefaultMiddleware }

-----------------------------------------------------------------------------
(* The program state as one value, and the initial value of its parts.     *)

World ==
  [config |-> config, requests |-> requests, reqState |-> reqState,
   engines |-> engines, calls |-> calls, decoder |-> decoder, ticks |-> ticks,
   caller |-> caller]

\* An IncomingMessage nobody has read from yet.  flowing is the stream's
\* readableFlowing: "null" (no consumer yet), "true" or "false" (paused).
\* pipes: the engines whose decompressor the request is piped into.
\* left: the chunks the client still has to send.
NewRequestStream(left) ==
  [left |-> left, flowing |-> "null", endEmitted |-> FALSE,
   aborted |-> FALSE, errored |-> FALSE, closed |-> FALSE, pipes |-> {},
   bodyFlag |-> FALSE, body |-> NoBody]

\* The closure of one rawBodyParser call (bodyParser.ts 348-352 and its
\* parameters) and, for a compressed request, its decompressor stream: zIn
\* chunks written to it and not yet transformed, zFlowing its readable side
\* flowing, zNeedDrain a write returned false, zEnded end() called by the
\* pipe, zEndEmitted, zDestroyed.  parserCalls, verifyCalls: the calls of the
\* configured functions; parserThrew, verifyThrew: the error caught from them;
\* errorBody: the body property of the error made of it.
IdleEngine ==
  [started |-> FALSE, stream |-> "none", attached |-> FALSE,
   complete |-> FALSE, sync |-> TRUE, received |-> 0, chunks |-> <<>>,
   verifyBuffer |-> <<>>, parseConfiguration |-> 0, contentLength |-> NULL,
   contentEncoding |-> "identity", defaultEncoding |-> UNDEF, limit |-> NULL,
   bufferEncoding |-> UNDEF, bufferEncodingIsStreamDecoder |-> FALSE,
   zIn |-> 0, zFlowing |-> FALSE, zNeedDrain |-> FALSE, zEnded |-> FALSE,
   zEndEmitted |-> FALSE, zDestroyed |-> FALSE, parserCalls |-> 0, verifyCalls |-> 0,
   escaped |-> 0, parserThrew |-> NoError, verifyThrew |-> NoError, errorBody |-> NoBody]

\* One call of the middleware getBody(req, res, next): the request it was
\* called with (0: not called yet), the arguments of every call of next and
\* of the callback handed to readStream, the errors waiting in an
\* onFinished(req, ...) listener, whether readStream was entered, the number
\* of calls it made of MediaTypeFunctions and whether it ended with an
\* exception (which getBody does not catch).
IdleCall ==
  [req |-> 0, nextArgs |-> <<>>, callbackArgs |-> <<>>, onFinished |-> <<>>,
   dispatched |-> FALSE, predicateCalls |-> 0, threw |-> FALSE]

-----------------------------------------------------------------------------
(* bodyParser.ts: readStreamCallback.                                      *)

next(w, e, err) == [w EXCEPT !.calls[e].nextArgs = Append(@, err)]

\* cb(error, body) of readStreamCallback(next, req)
cb(w, e, error, body) ==
  LET r == w.calls[e].req
      w1 == [w EXCEPT !.calls[e].callbackArgs = Append(@, [error |-> error, body |-> body])]
  IN  IF error # NoError
      THEN [w1 EXCEPT !.reqState[r].flowing = "true",
                      !.calls[e].onFinished = Append(@, error)]
      ELSE next(IF body # NoBody THEN [w1 EXCEPT !.reqState[r].body = body] ELSE w1,
                e, NoError)

-----------------------------------------------------------------------------
(* bodyParser.ts: rawBodyParser and its inner functions.                   *)

\* invokeCallback of done: on an error stream.unpipe(), stream.pause(), callback(err)
invokeCallback(w, e, err, result) ==
  LET r == w.calls[e].req
  IN  IF err # NoError
      THEN cb(IF w.engines[e].stream = "req"
              THEN [w EXCEPT !.reqState[r].pipes = {}, !.reqState[r].flowing = "false"]
              ELSE [w EXCEPT !.engines[e].zFlowing = FALSE],
              e, err, NoBody)
      ELSE cb(w, e, NoError, result)

\* done calling the callback at once, whatever sync is
doneInline(w, e, err, result) ==
  invokeCallback([w EXCEPT !.engines[e].complete = TRUE], e, err, result)

\* done leaving the callback to the next tick, whatever sync is
doneDeferred(w, e, err, result) ==
  [w EXCEPT !.engines[e].complete = TRUE,
            !.ticks = Append(@, [eng |-> e, err |-> err, result |-> result])]

done(w, e, err, result) ==
  LET w1 == [w EXCEPT !.engines[e].complete = TRUE]
  IN  IF w.engines[e].sync
      THEN [w1 EXCEPT !.ticks = Append(@, [eng |-> e, err |-> err, result |-> result])]
      ELSE invokeCallback(w1, e, err, result)

onAborted(w, e) ==
  IF w.engines[e].complete THEN w
  ELSE done(w, e, createError(400, "request.aborted"), NoBody)

\* bufferEncoding.onData(chunk) of the encoder registered under `name`
encoderOnData(name, pending, chunk) ==
  IF UsesUtf8Decoder(name) THEN decoderWrite(pending, chunk)
  ELSE [out |-> latin1Decode(chunk), pending |-> pending]

\* bufferEncoding.onEnd()
encoderOnEnd(name, pending) ==
  IF UsesUtf8Decoder(name) THEN decoderEnd(pending)
  ELSE [out |-> <<>>, pending |-> pending]

\* onData comparing the size of the chunk, not the bytes received so far, with the limit
onDataChunkLimit(w, e, chunk) ==
  LET eng == w.engines[e]
      received == eng.received + Len(chunk)
      w1 == [w EXCEPT !.engines[e].received = received]
      w2 == IF eng.limit # NULL /\ Len(chunk) > eng.limit
            THEN done(w1, e, createError(413, "entity.too.large"), NoBody)
            ELSE w1
      written == encoderOnData(eng.bufferEncoding, w2.decoder, chunk)
      w3 == IF eng.bufferEncodingIsStreamDecoder
            THEN [w2 EXCEPT !.engines[e].chunks = Append(@, written.out),
                            !.decoder = written.pending]
            ELSE [w2 EXCEPT !.engines[e].chunks = Append(@, chunk)]
      throws == eng.bufferEncodingIsStreamDecoder
                /\ encoderThrows(w.config, eng.bufferEncoding, chunk)
  IN  IF eng.complete THEN w
      ELSE IF throws THEN [w2 EXCEPT !.engines[e].escaped = @ + 1]
      ELSE IF w.config.parsers[eng.parseConfiguration].verify
              /\ eng.bufferEncodingIsStreamDecoder
           THEN [w3 EXCEPT !.engines[e].verifyBuffer = Append(@, chunk)]
           ELSE w3

\* onData without its `if (complete) return`
onDataUnguarded(w, e, chunk) ==
  LET eng == w.engines[e]
      received == eng.received + Len(chunk)
      w1 == [w EXCEPT !.engines[e].received = received]
      w2 == IF eng.limit # NULL /\ received > eng.limit
            THEN done(w1, e, createError(413, "entity.too.large"), NoBody)
            ELSE w1
      written == encoderOnData(eng.bufferEncoding, w2.decoder, chunk)
      w3 == IF eng.bufferEncodingIsStreamDecoder
            THEN [w2 EXCEPT !.engines[e].chunks = Append(@, written.out),
                            !.decoder = written.pending]
            ELSE [w2 EXCEPT !.engines[e].chunks = Append(@, chunk)]
      throws == eng.bufferEncodingIsStreamDecoder
                /\ encoderThrows(w.config, eng.bufferEncoding, chunk)
  IN  IF throws THEN [w2 EXCEPT !.engines[e].escaped = @ + 1]
      ELSE IF w.config.parsers[eng.parseConfiguration].verify
         /\ eng.bufferEncodingIsStreamDecoder
      THEN [w3 EXCEPT !.engines[e].verifyBuffer = Append(@, chunk)]
      ELSE w3

\* onData failing as soon as the bytes received reach the limit
onDataAtLimit(w, e, chunk) ==
  LET eng == w.engines[e]
      received == eng.received + Len(chunk)
      w1 == [w EXCEPT !.engines[e].received = received]
      w2 == IF eng.limit # NULL /\ received >= eng.limit
            THEN done(w1, e, createError(413, "entity.too.large"), NoBody)
            ELSE w1
      written == encoderOnData(eng.bufferEncoding, w2.decoder, chunk)
      w3 == IF eng.bufferEncodingIsStreamDecoder
            THEN [w2 EXCEPT !.engines[e].chunks = Append(@, written.out),
                            !.decoder = written.pending]
            ELSE [w2 EXCEPT !.engines[e].chunks = Append(@, chunk)]
      throws == eng.bufferEncodingIsStreamDecoder
                /\ encoderThrows(w.config, eng.bufferEncoding, chunk)
  IN  IF eng.complete THEN w
      ELSE IF throws THEN [w2 EXCEPT !.engines[e].escaped = @ + 1]
      ELSE IF w.config.parsers[eng.parseConfiguration].verify
              /\ eng.bufferEncodingIsStreamDecoder
           THEN [w3 EXCEPT !.engines[e].verifyBuffer = Append(@, chunk)]
           ELSE w3

onData(w, e, chunk) ==
  LET eng == w.engines[e]
      received == eng.received + Len(chunk)
      w1 == [w EXCEPT !.engines[e].received = received]
      w2 == IF eng.limit # NULL /\ received > eng.limit
            THEN done(w1, e, createError(413, "entity.too.large"), NoBody)
            ELSE w1
      written == encoderOnData(eng.bufferEncoding, w2.decoder, chunk)
      w3 == IF eng.bufferEncodingIsStreamDecoder
            THEN [w2 EXCEPT !.engines[e].chunks = Append(@, written.out),
                            !.decoder = written.pending]
            ELSE [w2 EXCEPT !.engines[e].chunks = Append(@, chunk)]
      throws == eng.bufferEncodingIsStreamDecoder
                /\ encoderThrows(w.config, eng.bufferEncoding, chunk)
  IN  IF eng.complete THEN w
      ELSE IF throws THEN [w2 EXCEPT !.engines[e].escaped = @ + 1]
      ELSE IF w.config.parsers[eng.parseConfiguration].verify
              /\ eng.bufferEncodingIsStreamDecoder
           THEN [w3 EXCEPT !.engines[e].verifyBuffer = Append(@, chunk)]
           ELSE w3

\* onEnd going on to success when the verify function throws
onEndVerifyUnchecked(w, e, code, parserThrows, verifyThrows) ==
  LET eng == w.engines[e]
      parseConfiguration == w.config.parsers[eng.parseConfiguration]
      flushed == encoderOnEnd(eng.bufferEncoding, w.decoder)
      w1 == IF eng.bufferEncodingIsStreamDecoder
            THEN [w EXCEPT !.engines[e].chunks = Append(@, flushed.out),
                           !.decoder = flushed.pending]
            ELSE w
      buffer == Flatten(w1.engines[e].chunks)
      transforms == parseConfiguration.encodings.kind # "undefined"
                    /\ ~eng.bufferEncodingIsStreamDecoder /\ eng.bufferEncoding # UNDEF
      decoded == IF transforms THEN latin1Decode(buffer) ELSE buffer
      body == [kind |-> IF parseConfiguration.parser THEN "parsed"
                        ELSE IF eng.bufferEncoding = UNDEF THEN "buffer" ELSE "decoded",
               value |-> decoded]
      w2 == IF parseConfiguration.parser
            THEN [w1 EXCEPT !.engines[e].parserCalls = @ + 1]
            ELSE w1
      w3 == [w2 EXCEPT !.engines[e].verifyCalls = @ + 1]
  IN  IF eng.complete THEN w
      ELSE IF code = "Z_DATA_ERROR" THEN done(w, e, createError(400, "header.check"), NoBody)
      ELSE IF code = "Z_BUF_ERROR" THEN done(w, e, createError(400, "end.of.file"), NoBody)
      ELSE IF code # "" THEN done(w, e, [status |-> 0, type |-> UNDEF], NoBody)
      ELSE IF eng.contentLength # NULL /\ eng.received # eng.contentLength
              /\ eng.contentEncoding = "identity"
           THEN done(w, e, createError(400, "request.size.invalid"), NoBody)
      ELSE IF eng.received = 0 THEN done(w1, e, NoError, parseConfiguration.emptyResponse)
      ELSE IF transforms /\ encoderThrows(w.config, eng.bufferEncoding, buffer)
           THEN [w1 EXCEPT !.engines[e].escaped = @ + 1]
      ELSE IF parseConfiguration.parser /\ parserThrows # NoError
           THEN done([w2 EXCEPT !.engines[e].parserThrew = parserThrows,
                                !.engines[e].errorBody =
                                   [kind |-> "decoded", value |-> decoded]], e,
                     createError(IF parserThrows.status # 0 THEN parserThrows.status ELSE 400,
                                 IF parserThrows.type # UNDEF THEN parserThrows.type
                                 ELSE "entity.parse.failed"),
                     NoBody)
      ELSE IF parseConfiguration.verify /\ verifyThrows # NoError
           THEN done([w3 EXCEPT !.engines[e].verifyThrew = verifyThrows,
                                !.engines[e].errorBody =
                                   [kind |-> IF body.kind = "decoded" THEN "decoded"
                                             ELSE "stringified",
                                    value |-> body.value]], e,
                     NoError, body)
      ELSE IF parseConfiguration.verify
           THEN done([w3 EXCEPT !.engines[e].verifyBuffer = <<>>], e, NoError, body)
      ELSE done(w2, e, NoError, body)

\* onEnd calling the verify function also when the parser threw
onEndVerifyAlways(w, e, code, parserThrows, verifyThrows) ==
  LET eng == w.engines[e]
      parseConfiguration == w.config.parsers[eng.parseConfiguration]
      flushed == encoderOnEnd(eng.bufferEncoding, w.decoder)
      w1 == IF eng.bufferEncodingIsStreamDecoder
            THEN [w EXCEPT !.engines[e].chunks = Append(@, flushed.out),
                           !.decoder = flushed.pending]
            ELSE w
      buffer == Flatten(w1.engines[e].chunks)
      transforms == parseConfiguration.encodings.kind # "undefined"
                    /\ ~eng.bufferEncodingIsStreamDecoder /\ eng.bufferEncoding # UNDEF
      decoded == IF transforms THEN latin1Decode(buffer) ELSE buffer
      body == [kind |-> IF parseConfiguration.parser THEN "parsed"
                        ELSE IF eng.bufferEncoding = UNDEF THEN "buffer" ELSE "decoded",
               value |-> decoded]
      w2 == IF parseConfiguration.parser
            THEN [w1 EXCEPT !.engines[e].parserCalls = @ + 1]
            ELSE w1
      w3 == [w2 EXCEPT !.engines[e].verifyCalls = @ + 1]
  IN  IF eng.complete THEN w
      ELSE IF code = "Z_DATA_ERROR" THEN done(w, e, createError(400, "header.check"), NoBody)
      ELSE IF code = "Z_BUF_ERROR" THEN done(w, e, createError(400, "end.of.file"), NoBody)
      ELSE IF code # "" THEN done(w, e, [status |-> 0, type |-> UNDEF], NoBody)
      ELSE IF eng.contentLength # NULL /\ eng.received # eng.contentLength
              /\ eng.contentEncoding = "identity"
           THEN done(w, e, createError(400, "request.size.invalid"), NoBody)
      ELSE IF eng.received = 0 THEN done(w1, e, NoError, parseConfiguration.emptyResponse)
      ELSE IF transforms /\ encoderThrows(w.config, eng.bufferEncoding, buffer)
           THEN [w1 EXCEPT !.engines[e].escaped = @ + 1]
      ELSE IF parseConfiguration.parser /\ parserThrows # NoError
           THEN done([w3 EXCEPT !.engines[e].parserThrew = parserThrows,
                                !.engines[e].errorBody =
                                   [kind |-> "decoded", value |-> decoded]], e,
                     createError(IF parserThrows.status # 0 THEN parserThrows.status ELSE 400,
                                 IF parserThrows.type # UNDEF THEN parserThrows.type
                                 ELSE "entity.parse.failed"),
                     NoBody)
      ELSE IF parseConfiguration.verify /\ verifyThrows # NoError
           THEN done([w3 EXCEPT !.engines[e].verifyThrew = verifyThrows,
                                !.engines[e].errorBody =
                                   [kind |-> IF body.kind = "decoded" THEN "decoded"
                                             ELSE "stringified",
                                    value |-> body.value]], e,
                     createError(IF verifyThrows.status # 0 THEN verifyThrows.status ELSE 403,
                                 IF verifyThrows.type # UNDEF THEN verifyThrows.type
                                 ELSE "entity.verify.failed"),
                     NoBody)
      ELSE IF parseConfiguration.verify
           THEN done([w3 EXCEPT !.engines[e].verifyBuffer = <<>>], e, NoError, body)
      ELSE done(w2, e, NoError, body)

\* onEnd(err): code is err.code, "" for the end event; parserThrows and
\* verifyThrows are what the configured functions throw on this body
onEnd(w, e, code, parserThrows, verifyThrows) ==
  LET eng == w.engines[e]
      parseConfiguration == w.config.parsers[eng.parseConfiguration]
      flushed == encoderOnEnd(eng.bufferEncoding, w.decoder)
      w1 == IF eng.bufferEncodingIsStreamDecoder
            THEN [w EXCEPT !.engines[e].chunks = Append(@, flushed.out),
                           !.decoder = flushed.pending]
            ELSE w
      buffer == Flatten(w1.engines[e].chunks)
      transforms == parseConfiguration.encodings.kind # "undefined"
                    /\ ~eng.bufferEncodingIsStreamDecoder /\ eng.bufferEncoding # UNDEF
      decoded == IF transforms THEN latin1Decode(buffer) ELSE buffer
      body == [kind |-> IF parseConfiguration.parser THEN "parsed"
                        ELSE IF eng.bufferEncoding = UNDEF THEN "buffer" ELSE "decoded",
               value |-> decoded]
      w2 == IF parseConfiguration.parser
            THEN [w1 EXCEPT !.engines[e].parserCalls = @ + 1]
            ELSE w1
      w3 == [w2 EXCEPT !.engines[e].verifyCalls = @ + 1]
  IN  IF eng.complete THEN w
      ELSE IF code = "Z_DATA_ERROR" THEN done(w, e, createError(400, "header.check"), NoBody)
      ELSE IF code = "Z_BUF_ERROR" THEN done(w, e, createError(400, "end.of.file"), NoBody)
      ELSE IF code # "" THEN done(w, e, [status |-> 0, type |-> UNDEF], NoBody)
      ELSE IF eng.contentLength # NULL /\ eng.received # eng.contentLength
              /\ eng.contentEncoding = "identity"
           THEN done(w, e, createError(400, "request.size.invalid"), NoBody)
      ELSE IF eng.received = 0 THEN done(w1, e, NoError, parseConfiguration.emptyResponse)
      ELSE IF transforms /\ encoderThrows(w.config, eng.bufferEncoding, buffer)
           THEN [w1 EXCEPT !.engines[e].escaped = @ + 1]
      ELSE IF parseConfiguration.parser /\ parserThrows # NoError
           THEN done([w2 EXCEPT !.engines[e].parserThrew = parserThrows,
                                !.engines[e].errorBody =
                                   [kind |-> "decoded", value |-> decoded]], e,
                     createError(IF parserThrows.status # 0 THEN parserThrows.status ELSE 400,
                                 IF parserThrows.type # UNDEF THEN parserThrows.type
                                 ELSE "entity.parse.failed"),
                     NoBody)
      ELSE IF parseConfiguration.verify /\ verifyThrows # NoError
           THEN done([w3 EXCEPT !.engines[e].verifyThrew = verifyThrows,
                                !.engines[e].errorBody =
                                   [kind |-> IF body.kind = "decoded" THEN "decoded"
                                             ELSE "stringified",
                                    value |-> body.value]], e,
                     createError(IF verifyThrows.status # 0 THEN verifyThrows.status ELSE 403,
                                 IF verifyThrows.type # UNDEF THEN verifyThrows.type
                                 ELSE "entity.verify.failed"),
                     NoBody)
      ELSE IF parseConfiguration.verify
           THEN done([w3 EXCEPT !.engines[e].verifyBuffer = <<>>], e, NoError, body)
      ELSE done(w2, e, NoError, body)

cleanup(w, e) ==
  [w EXCEPT !.engines[e].chunks = <<>>, !.engines[e].attached = FALSE]

\* decompressStream(req): "req", "zlib" (a decompressor the request is piped
\* into) or "throw"
decompressStream(w, contentEncoding) ==
  IF contentEncoding = "identity"
     /\ Includes(w.config.availableDecompressorNames, "identity") THEN "req"
  ELSE IF contentEncoding # "identity" THEN "zlib"
  ELSE "throw"

rawBodyParser(w, e, parseConfiguration, contentLength, contentEncoding, defaultEncoding, limit, bufferEncoding, bufferEncodingIsStreamDecoder) ==
  LET r == w.calls[e].req
      stream == decompressStream(w, contentEncoding)
      eng == [IdleEngine EXCEPT
                !.started = TRUE, !.parseConfiguration = parseConfiguration,
                !.contentLength = contentLength, !.contentEncoding = contentEncoding,
                !.defaultEncoding = defaultEncoding, !.limit = limit,
                !.bufferEncoding = bufferEncoding,
                !.bufferEncodingIsStreamDecoder = bufferEncodingIsStreamDecoder]
  IN  IF stream = "throw"
      THEN done([w EXCEPT !.engines[e] = [eng EXCEPT !.stream = "req"]], e,
                createError(415, "unsupported.content.encoding"), NoBody)
      ELSE IF stream = "req"
      THEN [w EXCEPT !.engines[e] = [eng EXCEPT !.stream = "req", !.attached = TRUE,
                                                !.sync = FALSE],
                     \* a 'data' listener starts a stream that was not paused
                     !.reqState[r].flowing = IF @ = "null" THEN "true" ELSE @]
      ELSE [w EXCEPT !.engines[e] = [eng EXCEPT !.stream = "zlib", !.attached = TRUE,
                                                !.sync = FALSE, !.zFlowing = TRUE],
                     \* req.pipe(stream) starts the request flowing
                     !.reqState[r].pipes = @ \cup {e},
                     !.reqState[r].flowing = "true"]

-----------------------------------------------------------------------------
(* bodyParser.ts: mediaTypeParser's readStream, the dispatcher.            *)

Indices(parsers) == [i \in 1..Len(parsers) |-> i]

BodilessMethod(method) == method \in {"GET", "DELETE"}

\* const contentEncoding = (req.headers['content-encoding'] || '').toLowerCase() || 'identity'
contentEncodingOf(rq) ==
  LET header == Header(rq, "content-encoding")
      lower == toLowerCase(IF header # UNDEF THEN header ELSE "")
  IN  IF lower # "" THEN lower ELSE "identity"

\* const contentLength = parseInt(req.headers['content-length']) || null
contentLengthOf(rq) ==
  LET parsed == parseInt(Header(rq, "content-length"))
  IN  IF parsed = -2 \/ parsed = 0 THEN NULL ELSE parsed

\* req.headers['Content-Type'] || !defaultContentType: whether contentType.parse runs
parsesContentType(c, rq) ==
  Header(rq, "Content-Type") # UNDEF \/ c.defaultContentType = NoMediaType

mediaTypeOf(c, rq) ==
  IF parsesContentType(c, rq) THEN contentTypeParse(rq).type ELSE c.defaultContentType

\* the charset parameter, lower-cased, or the default content type's encoding
encodingOf(c, rq) ==
  IF parsesContentType(c, rq)
  THEN IF contentTypeParse(rq).charset # UNDEF
       THEN toLowerCase(contentTypeParse(rq).charset) ELSE UNDEF
  ELSE c.defaultContentTypeEncoding

allowedMediaTypeParsersOf(c, rq) ==
  LET Allowed(i) == matchAnyType(c.parsers[i].matcher, mediaTypeOf(c, rq))
  IN  SelectSeq(Indices(c.parsers), Allowed)

allowedCharsetParsersOf(c, rq) ==
  LET Allowed(i) == matchCharsetEncoding(c.parsers[i].encodings, encodingOf(c, rq),
                                         c.availableBufferEncodingNames,
                                         c.parsers[i].defaultEncoding)
  IN  SelectSeq(allowedMediaTypeParsersOf(c, rq), Allowed)

\* the selection taking the last accepting configuration instead of the first
parseConfigurationLast(c, rq) ==
  LET Allowed(i) == matchContentEncoding(contentEncodingOf(rq), c.parsers[i].inflate,
                                         c.availableDecompressorNames)
      found == SelectSeq(allowedCharsetParsersOf(c, rq), Allowed)
  IN  IF found = <<>> THEN 0 ELSE found[Len(found)]

\* allowedCharsetParsers.find(...): the first one, 0 for undefined
parseConfigurationOf(c, rq) ==
  LET Allowed(i) == matchContentEncoding(contentEncodingOf(rq), c.parsers[i].inflate,
                                         c.availableDecompressorNames)
      found == SelectSeq(allowedCharsetParsersOf(c, rq), Allowed)
  IN  IF found = <<>> THEN 0 ELSE Head(found)

\* readStream matching the content-encoding before the charset
readStreamEncodingFirst(w, e) ==
  LET r == w.calls[e].req
      rq == w.requests[r]
      c == w.config
      w0 == [w EXCEPT !.reqState[r].bodyFlag = TRUE, !.calls[e].dispatched = TRUE]
      contentEncoding == contentEncodingOf(rq)
      contentLength == contentLengthOf(rq)
      transferEncoding == Header(rq, "transfer-encoding")
      encoding == encodingOf(c, rq)
      parseConfiguration == parseConfigurationOf(c, rq)
      defaultEncoding == IF encoding # UNDEF THEN encoding
                         ELSE c.parsers[parseConfiguration].defaultEncoding
      bufferEncoding == IF defaultEncoding # UNDEF
                           /\ Includes(c.availableBufferEncodingNames, defaultEncoding)
                        THEN defaultEncoding ELSE UNDEF
  IN  IF contentLength = NULL /\ c.requireContentLength
      THEN cb(w0, e, createError(411, "contentLength.missing"), NoBody)
      ELSE IF parsesContentType(c, rq) /\ contentTypeParseThrows(rq)
      THEN IF BodilessMethod(rq.method) THEN cb(w0, e, NoError, NoBody)
           ELSE cb(w0, e, createError(400, "mediaType.invalid"), NoBody)
      ELSE IF allowedMediaTypeParsersOf(c, rq) = <<>>
      THEN cb(w0, e, createError(415, "mediaType.unsupported"), NoBody)
      ELSE IF ~((transferEncoding = UNDEF /\ contentLength = NULL) \/ BodilessMethod(rq.method))
              /\ \A i \in 1..Len(allowedMediaTypeParsersOf(c, rq)) :
                   ~matchContentEncoding(contentEncoding,
                                         c.parsers[allowedMediaTypeParsersOf(c, rq)[i]].inflate,
                                         c.availableDecompressorNames)
      THEN cb(w0, e, createError(415, "encoding.unsupported"), NoBody)
      ELSE IF allowedCharsetParsersOf(c, rq) = <<>>
      THEN cb(w0, e, createError(415, "charset.unsupported"), NoBody)
      ELSE IF (transferEncoding = UNDEF /\ contentLength = NULL) \/ BodilessMethod(rq.method)
      THEN cb(w0, e, NoError,
              IF parseConfiguration = 0 THEN NoBody
              ELSE c.parsers[parseConfiguration].emptyResponse)
      ELSE IF parseConfiguration = 0
      THEN cb(w0, e, createError(415, "encoding.unsupported"), NoBody)
      ELSE rawBodyParser(w0, e, parseConfiguration, contentLength, contentEncoding,
                         defaultEncoding, c.parsers[parseConfiguration].limit,
                         bufferEncoding,
                         bufferEncoding # UNDEF /\ IsChunkedEncoder(c, bufferEncoding))

\* readStream whose bodiless check looks at the headers only, not at the method
readStreamHeadersOnly(w, e) ==
  LET r == w.calls[e].req
      rq == w.requests[r]
      c == w.config
      w0 == [w EXCEPT !.reqState[r].bodyFlag = TRUE, !.calls[e].dispatched = TRUE]
      contentEncoding == contentEncodingOf(rq)
      contentLength == contentLengthOf(rq)
      transferEncoding == Header(rq, "transfer-encoding")
      encoding == encodingOf(c, rq)
      parseConfiguration == parseConfigurationOf(c, rq)
      defaultEncoding == IF encoding # UNDEF THEN encoding
                         ELSE c.parsers[parseConfiguration].defaultEncoding
      bufferEncoding == IF defaultEncoding # UNDEF
                           /\ Includes(c.availableBufferEncodingNames, defaultEncoding)
                        THEN defaultEncoding ELSE UNDEF
  IN  IF contentLength = NULL /\ c.requireContentLength
      THEN cb(w0, e, createError(411, "contentLength.missing"), NoBody)
      ELSE IF parsesContentType(c, rq) /\ contentTypeParseThrows(rq)
      THEN IF BodilessMethod(rq.method) THEN cb(w0, e, NoError, NoBody)
           ELSE cb(w0, e, createError(400, "mediaType.invalid"), NoBody)
      ELSE IF allowedMediaTypeParsersOf(c, rq) = <<>>
      THEN cb(w0, e, createError(415, "mediaType.unsupported"), NoBody)
      ELSE IF allowedCharsetParsersOf(c, rq) = <<>>
      THEN cb(w0, e, createError(415, "charset.unsupported"), NoBody)
      ELSE IF transferEncoding = UNDEF /\ contentLength = NULL
      THEN cb(w0, e, NoError,
              IF parseConfiguration = 0 THEN NoBody
              ELSE c.parsers[parseConfiguration].emptyResponse)
      ELSE IF parseConfiguration = 0
      THEN cb(w0, e, createError(415, "encoding.unsupported"), NoBody)
      ELSE rawBodyParser(w0, e, parseConfiguration, contentLength, contentEncoding,
                         defaultEncoding, c.parsers[parseConfiguration].limit,
                         bufferEncoding,
                         bufferEncoding # UNDEF /\ IsChunkedEncoder(c, bufferEncoding))

\* readStream reporting an unaccepted content-encoding before its bodiless return
readStreamEncodingChecked(w, e) ==
  LET r == w.calls[e].req
      rq == w.requests[r]
      c == w.config
      w0 == [w EXCEPT !.reqState[r].bodyFlag = TRUE, !.calls[e].dispatched = TRUE]
      contentEncoding == contentEncodingOf(rq)
      contentLength == contentLengthOf(rq)
      transferEncoding == Header(rq, "transfer-encoding")
      encoding == encodingOf(c, rq)
      parseConfiguration == parseConfigurationOf(c, rq)
      defaultEncoding == IF encoding # UNDEF THEN encoding
                         ELSE c.parsers[parseConfiguration].defaultEncoding
      bufferEncoding == IF defaultEncoding # UNDEF
                           /\ Includes(c.availableBufferEncodingNames, defaultEncoding)
                        THEN defaultEncoding ELSE UNDEF
      filtered == {i \in 1..Len(c.parsers) :
                     \A j \in 1..(i - 1) :
                       ~matchAnyTypeThrows(c.parsers[j].matcher, mediaTypeOf(c, rq))}
      wm == [w0 EXCEPT !.calls[e].predicateCalls =
               Cardinality(UNION {{i} \X {k \in ReachedMatchers(c.parsers[i].matcher,
                                                                mediaTypeOf(c, rq)) :
                                           IsPredicate(c.parsers[i].matcher[k])} :
                                    i \in filtered})]
  IN  IF contentLength = NULL /\ c.requireContentLength
      THEN cb(w0, e, createError(411, "contentLength.missing"), NoBody)
      ELSE IF parsesContentType(c, rq) /\ contentTypeParseThrows(rq)
      THEN IF BodilessMethod(rq.method) THEN cb(w0, e, NoError, NoBody)
           ELSE cb(w0, e, createError(400, "mediaType.invalid"), NoBody)
      ELSE IF \E i \in 1..Len(c.parsers) :
                matchAnyTypeThrows(c.parsers[i].matcher, mediaTypeOf(c, rq))
      THEN [wm EXCEPT !.calls[e].threw = TRUE]
      ELSE IF allowedMediaTypeParsersOf(c, rq) = <<>>
      THEN cb(wm, e, createError(415, "mediaType.unsupported"), NoBody)
      ELSE IF allowedCharsetParsersOf(c, rq) = <<>>
      THEN cb(wm, e, createError(415, "charset.unsupported"), NoBody)
      ELSE IF parseConfiguration = 0
      THEN cb(wm, e, createError(415, "encoding.unsupported"), NoBody)
      ELSE IF (transferEncoding = UNDEF /\ contentLength = NULL) \/ BodilessMethod(rq.method)
      THEN cb(wm, e, NoError, c.parsers[parseConfiguration].emptyResponse)
      ELSE rawBodyParser(wm, e, parseConfiguration, contentLength, contentEncoding,
                         defaultEncoding, c.parsers[parseConfiguration].limit,
                         bufferEncoding,
                         bufferEncoding # UNDEF /\ IsChunkedEncoder(c, bufferEncoding))

readStream(w, e) ==
  LET r == w.calls[e].req
      rq == w.requests[r]
      c == w.config
      w0 == [w EXCEPT !.reqState[r].bodyFlag = TRUE, !.calls[e].dispatched = TRUE]
      contentEncoding == contentEncodingOf(rq)
      contentLength == contentLengthOf(rq)
      transferEncoding == Header(rq, "transfer-encoding")
      encoding == encodingOf(c, rq)
      parseConfiguration == parseConfigurationOf(c, rq)
      defaultEncoding == IF encoding # UNDEF THEN encoding
                         ELSE c.parsers[parseConfiguration].defaultEncoding
      bufferEncoding == IF defaultEncoding # UNDEF
                           /\ Includes(c.availableBufferEncodingNames, defaultEncoding)
                        THEN defaultEncoding ELSE UNDEF
      filtered == {i \in 1..Len(c.parsers) :
                     \A j \in 1..(i - 1) :
                       ~matchAnyTypeThrows(c.parsers[j].matcher, mediaTypeOf(c, rq))}
      wm == [w0 EXCEPT !.calls[e].predicateCalls =
               Cardinality(UNION {{i} \X {k \in ReachedMatchers(c.parsers[i].matcher,
                                                                mediaTypeOf(c, rq)) :
                                           IsPredicate(c.parsers[i].matcher[k])} :
                                    i \in filtered})]
  IN  IF contentLength = NULL /\ c.requireContentLength
      THEN cb(w0, e, createError(411, "contentLength.missing"), NoBody)
      ELSE IF parsesContentType(c, rq) /\ contentTypeParseThrows(rq)
      THEN IF BodilessMethod(rq.method) THEN cb(w0, e, NoError, NoBody)
           ELSE cb(w0, e, createError(400, "mediaType.invalid"), NoBody)
      ELSE IF \E i \in 1..Len(c.parsers) :
                matchAnyTypeThrows(c.parsers[i].matcher, mediaTypeOf(c, rq))
      THEN [wm EXCEPT !.calls[e].threw = TRUE]
      ELSE IF allowedMediaTypeParsersOf(c, rq) = <<>>
      THEN cb(wm, e, createError(415, "mediaType.unsupported"), NoBody)
      ELSE IF allowedCharsetParsersOf(c, rq) = <<>>
      THEN cb(wm, e, createError(415, "charset.unsupported"), NoBody)
      ELSE IF (transferEncoding = UNDEF /\ contentLength = NULL) \/ BodilessMethod(rq.method)
      THEN cb(wm, e, NoError,
              IF parseConfiguration = 0 THEN NoBody
              ELSE c.parsers[parseConfiguration].emptyResponse)
      ELSE IF parseConfiguration = 0
      THEN cb(wm, e, createError(415, "encoding.unsupported"), NoBody)
      ELSE rawBodyParser(wm, e, parseConfiguration, contentLength, contentEncoding,
                         defaultEncoding, c.parsers[parseConfiguration].limit,
                         bufferEncoding,
                         bufferEncoding # UNDEF /\ IsChunkedEncoder(c, bufferEncoding))

\* getBody(req, res, next) of bodyParser: invocation e of the middleware on request r
getBody(w, e, r) ==
  LET w0 == [w EXCEPT !.calls[e].req = r]
      w1 == IF w.reqState[r].bodyFlag THEN next(w0, e, NoError) ELSE w0
  IN  readStream(w1, e)

-----------------------------------------------------------------------------
(* Node's streams: how an event of the request reaches the listeners the   *)
(* engines registered (stream.on, req.pipe).                               *)

ListensOn(w, e, r, stream) ==
  /\ w.calls[e].req = r
  /\ w.engines[e].attached
  /\ w.engines[e].stream = stream

\* ondata of req.pipe(stream): stream.write(chunk); when the decompressor
\* holds highWaterMark the write returns false and the pipe pauses the request
pipeOnData(w, e, r) ==
  IF w.engines[e].zDestroyed \/ w.engines[e].zEnded THEN w
  ELSE IF w.engines[e].zIn + 1 >= HighWaterMark
  THEN [w EXCEPT !.engines[e].zIn = @ + 1, !.engines[e].zNeedDrain = TRUE,
                 !.reqState[r].flowing = "false"]
  ELSE [w EXCEPT !.engines[e].zIn = @ + 1]

\* the listeners of one engine for an event emitted by the request
listenersOnReq(w, e, r, event, arg) ==
  IF ListensOn(w, e, r, "req")
  THEN CASE event = "data" -> onData(w, e, arg.chunk)
         [] event = "end" -> onEnd(w, e, "", arg.parserThrows, arg.verifyThrows)
         [] event = "error" -> onEnd(w, e, arg.code, arg.parserThrows, arg.verifyThrows)
         [] event = "aborted" -> onAborted(w, e)
         [] OTHER -> cleanup(w, e)
  ELSE IF e \in w.reqState[r].pipes
  THEN CASE event = "data" -> pipeOnData(w, e, r)
         [] event = "end" -> [w EXCEPT !.engines[e].zEnded = TRUE]
         [] OTHER -> w
  ELSE w

\* req.emit(event, arg): the engines' listeners in the order of registration
RECURSIVE emitOnReq(_, _, _, _, _)
emitOnReq(w, r, event, arg, es) ==
  IF es = <<>> THEN w
  ELSE emitOnReq(listenersOnReq(w, Head(es), r, event, arg), r, event, arg, Tail(es))

EventArg(chunk, code, parserThrows, verifyThrows) ==
  [chunk |-> chunk, code |-> code, parserThrows |-> parserThrows,
   verifyThrows |-> verifyThrows]

\* on-finished's isFinished(req)
ReqFinished(rs) == rs.endEmitted \/ rs.aborted \/ rs.errored \/ rs.closed

\* the chunks of a body of ASCII bytes
Chunks == {[i \in 1..n |-> "a"] : n \in 1..MaxChunkLen}

\* the two bytes of a two-byte character, one per chunk
SplitCharacter == {<<"H">>, <<"T">>}

\* a chunk of a compressed body: bytes only the decompressor reads
Compressed == <<"z">>

\* a chunk holding the byte the user's encoders reject
Rejected == <<"x">>

Becomes(w) ==
  /\ config' = w.config
  /\ requests' = w.requests
  /\ reqState' = w.reqState
  /\ engines' = w.engines
  /\ calls' = w.calls
  /\ decoder' = w.decoder
  /\ ticks' = w.ticks
  /\ caller' = w.caller

-----------------------------------------------------------------------------
(* Actions.                                                                *)

\* The framework calls the middleware on request r (invocation e); a second
\* call on the same request happens once the first one has called next().
Middleware(r, e) ==
  /\ caller.pc \in {"built", "altered", "rebuilt"}
  /\ calls[e].req = 0
  /\ \A e2 \in Engs : e2 < e => calls[e2].req # 0
  /\ \A e2 \in Engs : calls[e2].req = r => calls[e2].nextArgs = <<NoError>>
  /\ Becomes(getBody(World, e, r))

\* The request emits 'data'
ReqData(r, chunk) ==
  /\ reqState[r].flowing = "true"
  /\ reqState[r].left > 0
  /\ ~ReqFinished(reqState[r])
  /\ (chunk = Compressed) <=> (contentEncodingOf(requests[r]) # "identity")
  /\ (chunk = Rejected) => config.bufferEncodings # <<>>
  /\ Becomes(emitOnReq([World EXCEPT !.reqState[r].left = @ - 1], r, "data", EventArg(chunk, "", NoError, NoError), Indices(calls)))

\* The request emits 'end'
ReqEnd(r, parserThrows, verifyThrows) ==
  /\ reqState[r].flowing = "true"
  /\ reqState[r].left = 0
  /\ ~ReqFinished(reqState[r])
  /\ Becomes(emitOnReq([World EXCEPT !.reqState[r].endEmitted = TRUE],
                       r, "end", EventArg(<<>>, "", parserThrows, verifyThrows),
                       Indices(calls)))

\* The connection is lost before the request was read to its end: 'aborted'
ReqAborted(r) ==
  /\ reqState[r].bodyFlag
  /\ ~ReqFinished(reqState[r])
  /\ Becomes(emitOnReq([World EXCEPT !.reqState[r].aborted = TRUE],
                       r, "aborted", EventArg(<<>>, "", NoError, NoError), Indices(calls)))

\* The request emits 'error' (it does so only when an 'error' listener is registered)
ReqError(r) ==
  /\ ~reqState[r].endEmitted
  /\ ~reqState[r].errored
  /\ ~reqState[r].closed
  /\ \E e \in Engs : ListensOn(World, e, r, "req")
  /\ Becomes(emitOnReq([World EXCEPT !.reqState[r].errored = TRUE],
                       r, "error", EventArg(<<>>, "ECONNRESET", NoError, NoError),
                       Indices(calls)))

\* The request emits 'close'
ReqClose(r) ==
  /\ reqState[r].bodyFlag
  /\ ReqFinished(reqState[r])
  /\ ~reqState[r].closed
  /\ Becomes(emitOnReq([World EXCEPT !.reqState[r].closed = TRUE],
                       r, "close", EventArg(<<>>, "", NoError, NoError), Indices(calls)))

\* The request is destroyed before it was read to its end (req.destroy() by
\* another handler, or any Readable handed to the middleware closing early):
\* it emits 'close' and no 'end', 'error' or 'aborted'
ReqDestroy(r) ==
  /\ reqState[r].bodyFlag
  /\ ~ReqFinished(reqState[r])
  /\ Becomes(emitOnReq([World EXCEPT !.reqState[r].closed = TRUE],
                       r, "close", EventArg(<<>>, "", NoError, NoError), Indices(calls)))

\* The decompressor of engine e emits 'data'; once its input buffer is empty
\* it emits 'drain' and the pipe resumes the request
ZlibData(e, chunk) ==
  LET r == calls[e].req
      w1 == [World EXCEPT !.engines[e].zIn = @ - 1]
      w2 == IF engines[e].attached THEN onData(w1, e, chunk) ELSE w1
  IN  /\ engines[e].stream = "zlib"
      /\ engines[e].zFlowing
      /\ engines[e].zIn > 0
      /\ ~engines[e].zDestroyed
      /\ (chunk = Rejected) => config.bufferEncodings # <<>>
      /\ Becomes(IF w2.engines[e].zNeedDrain /\ w2.engines[e].zIn = 0
                 THEN [w2 EXCEPT !.engines[e].zNeedDrain = FALSE,
                                 !.reqState[r].flowing =
                                    IF e \in w2.reqState[r].pipes THEN "true" ELSE @]
                 ELSE w2)

\* The decompressor emits 'end' after the pipe ended it and all output was read
ZlibEnd(e, parserThrows, verifyThrows) ==
  LET w1 == [World EXCEPT !.engines[e].zEndEmitted = TRUE]
  IN  /\ engines[e].stream = "zlib"
      /\ engines[e].zFlowing
      /\ engines[e].zEnded
      /\ engines[e].zIn = 0
      /\ ~engines[e].zEndEmitted
      /\ ~engines[e].zDestroyed
      /\ Becomes(IF engines[e].attached
                 THEN onEnd(w1, e, "", parserThrows, verifyThrows) ELSE w1)

\* The decompressor fails on its input: 'error' with a zlib code.  The pipe's
\* own 'error' listener comes first: it unpipes, and a request left without
\* destination is paused.
ZlibError(e, code) ==
  LET r == calls[e].req
      w1 == [World EXCEPT !.engines[e].zDestroyed = TRUE,
                          !.engines[e].zIn = 0,
                          !.reqState[r].pipes = @ \ {e},
                          !.reqState[r].flowing =
                             IF e \in reqState[r].pipes /\ reqState[r].pipes = {e}
                             THEN "false" ELSE @]
  IN  /\ engines[e].stream = "zlib"
      /\ engines[e].attached
      /\ ~engines[e].zDestroyed
      /\ ~engines[e].zEndEmitted
      /\ \/ code = "Z_DATA_ERROR" /\ engines[e].zIn > 0
         \/ code = "Z_BUF_ERROR" /\ engines[e].zEnded /\ engines[e].zIn = 0
      /\ Becomes(onEnd(w1, e, code, NoError, NoError))

\* The decompressor emits 'close'
ZlibClose(e) ==
  /\ engines[e].stream = "zlib"
  /\ engines[e].attached
  /\ engines[e].zEndEmitted \/ engines[e].zDestroyed
  /\ Becomes(cleanup(World, e))

\* process.nextTick runs the invokeCallback that done deferred
Tick ==
  /\ ticks # <<>>
  /\ Becomes(invokeCallback([World EXCEPT !.ticks = Tail(@)],
                            Head(ticks).eng, Head(ticks).err, Head(ticks).result))

\* on-finished calls the listener of readStreamCallback: next(createError(400, error))
Finished(e) ==
  /\ calls[e].onFinished # <<>>
  /\ ReqFinished(reqState[calls[e].req])
  /\ Becomes(next([World EXCEPT !.calls[e].onFinished = Tail(@)], e,
                  createErrorFrom(400, Head(calls[e].onFinished))))

-----------------------------------------------------------------------------
(* The requests of the model and the specification.                        *)

Methods == {"GET", "DELETE", "POST"}

ContentTypes == DOMAIN ContentTypeTable \cup {UNDEF, "garbage"}
ContentEncodings == {UNDEF, "GZIP", "lzw"}
ContentLengths == {UNDEF, "0", "1", "3"}
TransferEncodings == {UNDEF, "chunked"}

\* req.headers: a missing header reads as undefined
Headers(contentType, contentEncoding, contentLength, transferEncoding) ==
  [k \in {"content-type", "content-encoding", "content-length", "transfer-encoding"} |->
     CASE k = "content-type" -> contentType
       [] k = "content-encoding" -> contentEncoding
       [] k = "content-length" -> contentLength
       [] OTHER -> transferEncoding]

Request(method, headers) == [method |-> method, headers |-> headers]

NoRequest == Request("GET", Headers(UNDEF, UNDEF, UNDEF, UNDEF))

InitWith(served, configs, methods, contentTypes, contentEncodings, contentLengths, transferEncodings, lefts) ==
  /\ config \in configs
  /\ \E hs \in [served -> {Headers(ct, ce, cl, te) :
                             ct \in contentTypes, ce \in contentEncodings,
                             cl \in contentLengths, te \in transferEncodings}],
        ms \in [served -> methods] :
       requests = [r \in Reqs |-> IF r \in served THEN Request(ms[r], hs[r]) ELSE NoRequest]
  /\ \E ls \in [served -> lefts] :
       reqState = [r \in Reqs |-> NewRequestStream(IF r \in served THEN ls[r] ELSE 0)]
  /\ engines = [e \in Engs |-> IdleEngine]
  /\ calls = [e \in Engs |-> IdleCall]
  /\ decoder = <<>>
  /\ ticks = <<>>
  /\ caller = Caller("built", NoOptions, Undefined, <<>>, <<>>)

\* One request, served by up to MaxInvocations calls of the middleware
Init ==
  InitWith({1}, Configs, Methods, ContentTypes, ContentEncodings, ContentLengths,
           TransferEncodings, 0..MaxChunks)

Next ==
  \/ \E e \in Engs : Middleware(1, e)
  \/ \E chunk \in Chunks \cup {Compressed, Rejected} : ReqData(1, chunk)
  \/ \E parserThrows \in Thrown, verifyThrows \in Thrown : ReqEnd(1, parserThrows, verifyThrows)
  \/ ReqAborted(1)
  \/ ReqError(1)
  \/ ReqClose(1)
  \/ \E e \in Engs, chunk \in Chunks \cup {Rejected} : ZlibData(e, chunk)
  \/ \E e \in Engs, parserThrows \in Thrown, verifyThrows \in Thrown :
       ZlibEnd(e, parserThrows, verifyThrows)
  \/ \E e \in Engs, code \in {"Z_DATA_ERROR", "Z_BUF_ERROR"} : ZlibError(e, code)
  \/ \E e \in Engs : ZlibClose(e)
  \/ Tick
  \/ \E e \in Engs : Finished(e)

Spec == Init /\ [][Next]_vars

\* Two requests in flight through one middleware, each served by one
\* invocation: both POST a chunked JSON body in the default charset (utf-8).
\* Request 1 sends the bytes of a two-byte character one per chunk, request 2
\* sends ASCII bytes only.
InitConcurrent ==
  InitWith({1, 2},
           {bodyParser(FALSE, NoMediaType,
                       DefaultParsers(NULL, List(<<"identity">>), FALSE), <<>>, <<>>)},
           {"POST"}, {"application/json"}, {UNDEF}, {UNDEF}, {"chunked"}, 1..2)

NextConcurrent ==
  \/ \E r \in {1, 2} : Middleware(r, r)
  \/ \E chunk \in SplitCharacter : ReqData(1, chunk)
  \/ ReqData(2, <<"a">>)
  \/ \E r \in {1, 2}, parserThrows \in Thrown : ReqEnd(r, parserThrows, NoError)
  \/ \E r \in {1, 2} : ReqAborted(r)
  \/ \E r \in {1, 2} : ReqError(r)
  \/ \E r \in {1, 2} : ReqClose(r)
  \/ \E e \in {1, 2} : Finished(e)

SpecConcurrent == InitConcurrent /\ [][NextConcurrent]_vars

\* What joinParserConfigurations makes of {matcher: [...]} under the default
\* options: no encodings, no parser, no emptyResponse
MatcherParsers(matcher) ==
  <<[matcher |-> matcher, encodings |-> Undefined, defaultEncoding |-> UNDEF,
     parser |-> FALSE, emptyResponse |-> NoBody, limit |-> 20480,
     inflate |-> List(<<"identity">>), verify |-> FALSE,
     requireContentLength |-> FALSE]>>

\* The middlewares whose only configuration is matched by a MediaTypeFunction
\* that accepts, rejects or throws, alone or after a MediaTypeTemplate
PredicateConfigs ==
  {bodyParser(FALSE, NoMediaType, MatcherParsers(<< <<PREDICATE, outcome>> >>), <<>>, <<>>) :
     outcome \in {"accepts", "rejects", "throws"}}
  \cup
  {bodyParser(FALSE, NoMediaType,
              MatcherParsers(<< <<"text", "xml">>, <<PREDICATE, "throws">> >>),
              <<>>, <<>>)}

\* One request of any method, with or without Content-Type, to a middleware
\* matched by a MediaTypeFunction
InitPredicate ==
  InitWith({1}, PredicateConfigs, Methods, ContentTypes, {UNDEF}, {UNDEF, "1"},
           {UNDEF, "chunked"}, 0..1)

NextPredicate ==
  \/ \E e \in Engs : Middleware(1, e)
  \/ \E chunk \in Chunks : ReqData(1, chunk)
  \/ ReqEnd(1, NoError, NoError)
  \/ ReqClose(1)
  \/ \E e \in Engs : Finished(e)

SpecPredicate == InitPredicate /\ [][NextPredicate]_vars

-----------------------------------------------------------------------------
(* Construction: the caller builds a middleware from its options, parser   *)
(* configurations, buffer encoders and decompressors, alters its options   *)
(* object afterwards, and a request is served.                             *)

\* the values a property of a ParserConfiguration takes in the model
ParserValues == {"unset", "null", "fn"}
EmptyResponseValues == {UnsetValue, NullValue, UserValue}
EncodingsValues ==
  {Unset, Null, False, True, [kind |-> "string", list |-> <<"latin1">>],
   [kind |-> "list", list |-> <<"x-b">>]}
DefaultEncodingValues == {UNDEF, "latin1", "x-b"}
LimitValues == {UnsetLimit, LimitNumber(0), LimitNumber(SmallLimit)}
InflateValues == {Unset, True, Name("gzip"), List(<<"identity", "lzw">>)}
RequireContentLengthValues == {"unset", "true", "false"}
MatcherValues == {"application/json", "application/octet-stream", "text/xml"}

\* the number of properties besides the matcher that an entry sets
PropertiesSet(parser) ==
  Cardinality({k \in 1..8 :
     CASE k = 1 -> parser.parser # "unset"
       [] k = 2 -> parser.emptyResponse # UnsetValue
       [] k = 3 -> parser.encodings # Unset
       [] k = 4 -> parser.defaultEncoding # UNDEF
       [] k = 5 -> parser.limit # UnsetLimit
       [] k = 6 -> parser.inflate # Unset
       [] k = 7 -> parser.verify
       [] OTHER -> parser.requireContentLength # "unset"})

\* the configuration objects of the model: a matcher and up to MaxProperties
\* other properties
MaxProperties == 2

ParserConfigurationObjects ==
  {parser \in [kind : {"object"}, matcher : MatcherValues, parser : ParserValues,
               emptyResponse : EmptyResponseValues, encodings : EncodingsValues,
               defaultEncoding : DefaultEncodingValues, limit : LimitValues,
               inflate : InflateValues, verify : BOOLEAN,
               requireContentLength : RequireContentLengthValues] :
     PropertiesSet(parser) <= MaxProperties}

\* the user's buffer encoders: none, a group of two names, the same group
\* with a name in upper case, and an encoder replacing the native 'utf8'
BufferEncodingsValues ==
  { <<>>,
    <<[encodings |-> <<"x-a", "x-b">>, chunked |-> FALSE]>>,
    <<[encodings |-> <<"X-A", "x-b">>, chunked |-> FALSE]>>,
    <<[encodings |-> <<"utf8">>, chunked |-> FALSE]>> }

DecompressorsValues == { <<>>, <<"lzw">> }

OptionsValues ==
  { NoOptions,
    [NoOptions EXCEPT !.defaultLimit = LimitNumber(SmallLimit)],
    [NoOptions EXCEPT !.inflate = True],
    [NoOptions EXCEPT !.inflate = List(<<"identity", "gzip">>)],
    [NoOptions EXCEPT !.requireContentLength = "true"] }

ConstructionContentTypes == {"application/json", "application/octet-stream", "text/xml"}

\* the entries that set nothing but encodings and defaultEncoding, and
\* nothing but inflate
EncodingObjects ==
  {parser \in ParserConfigurationObjects :
     parser = [ParserConfiguration(parser.matcher) EXCEPT
                 !.encodings = parser.encodings,
                 !.defaultEncoding = parser.defaultEncoding]}

InflateObjects ==
  {parser \in ParserConfigurationObjects :
     parser = [ParserConfiguration(parser.matcher) EXCEPT !.inflate = parser.inflate]}

\* the calls of bodyParser of the model: every entry under every options
\* object, the entries on encodings with the user's buffer encoders, the
\* entries on inflate with the user's decompressor, and the calls without
\* configurations or with a bare default media type
Callers ==
  {Caller("start", options, List(<<parser>>), <<>>, <<>>) :
     options \in OptionsValues, parser \in ParserConfigurationObjects}
  \cup
  {Caller("start", NoOptions, List(<<parser>>), bufferEncodings, <<>>) :
     parser \in EncodingObjects, bufferEncodings \in BufferEncodingsValues}
  \cup
  {Caller("start", NoOptions, List(<<parser>>), <<>>, decompressors) :
     parser \in InflateObjects, decompressors \in DecompressorsValues}
  \cup
  {Caller("start", options, parserConfigurations, <<>>, <<>>) :
     options \in OptionsValues,
     parserConfigurations \in
       {Undefined} \cup {List(<<DefaultMediaType(name)>>) :
                           name \in Range(DefaultParserConfigurations)}}

\* the Content-Type of the request that goes with a call: that of the matcher
\* of its first entry
ContentTypeOf(parserConfigurations) ==
  IF parserConfigurations.kind = "undefined" THEN "application/json"
  ELSE IF parserConfigurations.list[1].matcher \in ConstructionContentTypes
  THEN parserConfigurations.list[1].matcher
  ELSE "text/xml"

\* const middleware = bodyParser(options, parserConfigurations, bufferEncodings, decompressors)
BodyParser ==
  /\ caller.pc = "start"
  /\ LET built == bodyParserOn(caller.options, caller.parserConfigurations,
                               caller.bufferEncodings, caller.decompressors)
     IN  Becomes([World EXCEPT !.config = built,
                               !.caller.pc = IF built.thrown = UNDEF THEN "built"
                                             ELSE "thrown",
                               !.caller.decompressors =
                                 decompressorsAfter(caller.options,
                                                    caller.parserConfigurations,
                                                    caller.bufferEncodings,
                                                    caller.decompressors)])

\* options.defaultLimit = ...; options.inflate = ...: the caller assigns to the
\* properties of the options object it passed
AlterOptions(options) ==
  /\ caller.pc = "built"
  /\ options # caller.options
  /\ Becomes([World EXCEPT !.caller.pc = "altered", !.caller.options = options])

\* options.inflate.pop(): the caller takes the last name off the array it
\* passed as the option inflate.  getInflate returns the array it is given,
\* not a copy, so the array is also the inflate of every resolved
\* configuration whose entry sets no inflate of its own.
PopInflate ==
  /\ caller.pc = "built"
  /\ caller.options.inflate.kind = "list"
  /\ caller.options.inflate.list # <<>>
  /\ LET list == caller.options.inflate.list
         popped == List(SubSeq(list, 1, Len(list) - 1))
         entries == IF caller.parserConfigurations.kind = "undefined"
                    THEN [i \in 1..Len(DefaultParserConfigurations) |->
                            DefaultMediaType(DefaultParserConfigurations[i])]
                    ELSE caller.parserConfigurations.list
         shares(i) == entries[i].kind = "name" \/ entries[i].inflate.kind = "unset"
     IN  Becomes([World EXCEPT
                    !.caller.options.inflate = popped,
                    !.config.parsers =
                      [i \in 1..Len(config.parsers) |->
                         IF shares(i) THEN [config.parsers[i] EXCEPT !.inflate = popped]
                         ELSE config.parsers[i]]])

InitConstruction ==
  /\ caller \in Callers
  /\ config = NoMiddleware(UNDEF, <<>>)
  /\ requests = [r \in Reqs |->
                  IF r = 1
                  THEN Request("POST", Headers(ContentTypeOf(caller.parserConfigurations),
                                               UNDEF, UNDEF, "chunked"))
                  ELSE NoRequest]
  /\ reqState = [r \in Reqs |-> NewRequestStream(IF r = 1 THEN 1 ELSE 0)]
  /\ engines = [e \in Engs |-> IdleEngine]
  /\ calls = [e \in Engs |-> IdleCall]
  /\ decoder = <<>>
  /\ ticks = <<>>

NextConstruction ==
  \/ BodyParser
  \/ \E options \in OptionsValues : AlterOptions(options)
  \/ PopInflate
  \/ Middleware(1, 1)
  \/ \E chunk \in Chunks : ReqData(1, chunk)
  \/ ReqEnd(1, NoError, NoError)
  \/ Tick
  \/ Finished(1)

SpecConstruction == InitConstruction /\ [][NextConstruction]_vars

-----------------------------------------------------------------------------
(* Two constructions: the caller builds a middleware and then a second one *)
(* from the same options object and the same decompressor map.             *)

\* the caller after bodyParser (via "bodyParser") or a parser of one media
\* type (via "standard") returned or threw: getStandardParser and
\* bodyParser.raw delete options.defaultContentType, getAvailableDecompressors
\* deletes keys of the decompressor map
Called(c, via, parserConfigurations, reached) ==
  LET options == IF via = "standard"
                 THEN StandardParserOptions(parserConfigurations.list[1].matcher, c.options)
                 ELSE c.options
      built == bodyParserOn(options, parserConfigurations, c.bufferEncodings,
                            c.decompressors)
  IN  [c EXCEPT !.pc = IF built.thrown = UNDEF THEN reached ELSE "thrown",
                !.via = via,
                !.parserConfigurations = parserConfigurations,
                !.options.defaultContentType = IF via = "standard" THEN "unset" ELSE @,
                !.decompressors = decompressorsAfter(options, parserConfigurations,
                                                     c.bufferEncodings, c.decompressors)]

\* the middleware that call returns
MiddlewareOf(via, options, parserConfigurations, bufferEncodings, decompressors) ==
  IF via = "standard"
  THEN getStandardParser(parserConfigurations.list[1].matcher, options, bufferEncodings,
                         decompressors)
  ELSE bodyParserOn(options, parserConfigurations, bufferEncodings, decompressors)

\* const middleware = bodyParser.json(options, bufferEncodings, decompressors),
\* or .text, .urlencoded, .raw
StandardParser(name) ==
  /\ caller.pc = "start"
  /\ LET parserConfigurations == List(<<DefaultMediaType(name)>>)
     IN  Becomes([World EXCEPT
                    !.config = MiddlewareOf("standard", caller.options, parserConfigurations,
                                            caller.bufferEncodings, caller.decompressors),
                    !.caller = Called(caller, "standard", parserConfigurations, "built")])

\* a second bodyParser(options, parserConfigurations, undefined, decompressors)
\* with the objects of the first call, before any request is served
BodyParserAgain(parserConfigurations) ==
  /\ caller.pc = "built"
  /\ calls[1].req = 0
  /\ caller.options.defaultContentType # "true"
  /\ Becomes([World EXCEPT
                !.config = MiddlewareOf("bodyParser", caller.options, parserConfigurations,
                                        caller.bufferEncodings, caller.decompressors),
                !.caller = Called(caller, "bodyParser", parserConfigurations, "rebuilt")])

\* a second bodyParser.json(options, undefined, decompressors), or its like
StandardParserAgain(name) ==
  /\ caller.pc = "built"
  /\ calls[1].req = 0
  /\ LET parserConfigurations == List(<<DefaultMediaType(name)>>)
     IN  Becomes([World EXCEPT
                    !.config = MiddlewareOf("standard", caller.options, parserConfigurations,
                                            caller.bufferEncodings, caller.decompressors),
                    !.caller = Called(caller, "standard", parserConfigurations, "rebuilt")])

\* the options objects and the entries of the two calls
RebuildOptions ==
  {[NoOptions EXCEPT !.inflate = inflate, !.defaultContentType = defaultContentType] :
     inflate \in {Unset, True},
     defaultContentType \in {"unset", "true", "application/json"}}

RebuildMatchers == {"application/json", "text/plain"}

RebuildObjects == {parser \in InflateObjects : parser.matcher = "application/json"}

InitRebuild ==
  /\ caller \in {Caller("start", options, List(<<parser>>), <<>>, decompressors) :
                   options \in RebuildOptions, parser \in RebuildObjects,
                   decompressors \in DecompressorsValues}
  /\ config = NoMiddleware(UNDEF, <<>>)
  /\ \E contentType \in {UNDEF, "application/json"}, contentEncoding \in {UNDEF, "lzw"} :
       requests = [r \in Reqs |->
                     IF r = 1
                     THEN Request("POST", Headers(contentType, contentEncoding, UNDEF,
                                                  "chunked"))
                     ELSE NoRequest]
  /\ reqState = [r \in Reqs |-> NewRequestStream(IF r = 1 THEN 1 ELSE 0)]
  /\ engines = [e \in Engs |-> IdleEngine]
  /\ calls = [e \in Engs |-> IdleCall]
  /\ decoder = <<>>
  /\ ticks = <<>>

NextRebuild ==
  \/ caller.options.defaultContentType # "true" /\ BodyParser
  \/ \E name \in RebuildMatchers : StandardParser(name)
  \/ \E parser \in RebuildObjects : BodyParserAgain(List(<<parser>>))
  \/ \E name \in RebuildMatchers : StandardParserAgain(name)
  \/ Middleware(1, 1)
  \/ \E chunk \in Chunks \cup {Compressed} : ReqData(1, chunk)
  \/ ReqEnd(1, NoError, NoError)
  \/ \E chunk \in Chunks : ZlibData(1, chunk)
  \/ ZlibEnd(1, NoError, NoError)
  \/ Tick
  \/ Finished(1)

SpecRebuild == InitRebuild /\ [][NextRebuild]_vars

-----------------------------------------------------------------------------
(* Two requests one after the other through one middleware: request 2 is   *)
(* handed to the middleware once request 1 is closed.  Both POST a JSON    *)
(* body in the default charset (utf-8) under a limit of SmallLimit bytes;  *)
(* request 1 sends bytes of a two-byte character, request 2 ASCII bytes.   *)

InitSequential ==
  InitWith({1, 2},
           {bodyParser(FALSE, NoMediaType,
                       DefaultParsers(SmallLimit, List(<<"identity">>), FALSE), <<>>, <<>>)},
           {"POST"}, {"application/json"}, {UNDEF}, {UNDEF, "3"}, {"chunked"}, 1..2)

NextSequential ==
  \/ Middleware(1, 1)
  \/ reqState[1].closed /\ Middleware(2, 2)
  \/ \E chunk \in SplitCharacter : ReqData(1, chunk)
  \/ ReqData(2, <<"a">>)
  \/ \E r \in {1, 2} : ReqEnd(r, NoError, NoError)
  \/ \E r \in {1, 2} : ReqAborted(r)
  \/ \E r \in {1, 2} : ReqClose(r)
  \/ \E e \in {1, 2} : Finished(e)

SpecSequential == InitSequential /\ [][NextSequential]_vars

-----------------------------------------------------------------------------
(* One request with an uncompressed body whose stream may be closed before *)
(* its end.                                                                *)

InitDestroy ==
  InitWith({1},
           {bodyParser(FALSE, NoMediaType,
                       DefaultParsers(SmallLimit, List(<<"identity">>), FALSE), <<>>, <<>>),
            bodyParser(FALSE, NoMediaType,
                       <<DefaultParser("application/json", SmallLimit, List(<<"gzip">>),
                                       FALSE)>>,
                       <<>>, <<>>),
            DefaultMiddleware},
           {"POST"}, {"application/json"}, {UNDEF}, {UNDEF, "1", "3"}, {UNDEF, "chunked"},
           0..MaxChunks)

NextDestroy ==
  \/ Middleware(1, 1)
  \/ \E chunk \in Chunks : ReqData(1, chunk)
  \/ \E parserThrows \in Thrown : ReqEnd(1, parserThrows, NoError)
  \/ ReqAborted(1)
  \/ ReqError(1)
  \/ ReqClose(1)
  \/ ReqDestroy(1)
  \/ Tick
  \/ Finished(1)

SpecDestroy == InitDestroy /\ [][NextDestroy]_vars

-----------------------------------------------------------------------------
(* Constructions with user encoders: the default configurations, or one    *)
(* of the parsers of one media type, under lists of user encoders whose    *)
(* names are all different.                                                *)

Encoder(encodings) == [encodings |-> encodings, chunked |-> FALSE]

EncoderLists ==
  { <<>>,
    <<Encoder(<<"utf8">>)>>,
    <<Encoder(<<"utf-8">>)>>,
    <<Encoder(<<"ucs2">>)>>,
    <<Encoder(<<"ucs-2">>)>>,
    <<Encoder(<<"hex">>)>>,
    <<Encoder(<<"utf-8", "utf8">>)>>,
    <<Encoder(<<"x-a", "x-b">>)>>,
    <<Encoder(<<"utf-8">>), Encoder(<<"hex">>), Encoder(<<"ucs-2", "ucs2">>)>> }

InitEncoders ==
  /\ caller \in {Caller("start", NoOptions, parserConfigurations, bufferEncodings, <<>>) :
                   parserConfigurations \in
                     {Undefined} \cup {List(<<DefaultMediaType(name)>>) :
                                         name \in Range(DefaultParserConfigurations)},
                   bufferEncodings \in EncoderLists}
  /\ config = NoMiddleware(UNDEF, <<>>)
  /\ requests = [r \in Reqs |->
                  IF r = 1
                  THEN Request("POST", Headers(ContentTypeOf(caller.parserConfigurations),
                                               UNDEF, UNDEF, "chunked"))
                  ELSE NoRequest]
  /\ reqState = [r \in Reqs |-> NewRequestStream(IF r = 1 THEN 1 ELSE 0)]
  /\ engines = [e \in Engs |-> IdleEngine]
  /\ calls = [e \in Engs |-> IdleCall]
  /\ decoder = <<>>
  /\ ticks = <<>>

NextEncoders ==
  \/ BodyParser
  \/ Middleware(1, 1)
  \/ \E chunk \in Chunks : ReqData(1, chunk)
  \/ ReqEnd(1, NoError, NoError)
  \/ Finished(1)

SpecEncoders == InitEncoders /\ [][NextEncoders]_vars

-----------------------------------------------------------------------------

(* Properties.                                                             *)

\* the outcomes invocation e has produced: the calls of its completion
\* callback and the ones done has deferred to the next tick
Outcomes(e) ==
  Len(calls[e].callbackArgs) + Cardinality({i \in DOMAIN ticks : ticks[i].eng = e})

EntityTooLarge == createError(413, "entity.too.large")

(* C1: for one rawBodyParser instance and any sequence of stream events    *)
(* the completion callback is invoked at most once; once complete is set   *)
(* no later data, end, error or aborted event produces a second outcome or *)
(* changes the received-byte counter.                                      *)
C1_CallbackAtMostOnce ==
  [][\A e \in Engs :
       /\ Outcomes(e)' <= 1
       /\ engines[e].complete =>
            /\ engines'[e].complete
            /\ engines'[e].received = engines[e].received
            /\ Outcomes(e)' = Outcomes(e)]_vars

\* an engine that failed on a data event, still has its listeners and has
\* seen the end of the request since
C1_Witness ==
  \E e \in Engs :
    /\ engines[e].complete
    /\ engines[e].stream = "req"
    /\ engines[e].attached
    /\ calls[e].callbackArgs = <<[error |-> EntityTooLarge, body |-> NoBody]>>
    /\ reqState[calls[e].req].left = 0
    /\ reqState[calls[e].req].endEmitted


\* the engine of invocation e got its stream and registered its listeners
Reading(e) == engines[e].started /\ ~engines[e].sync

\* the errors the completion callback of invocation e was called with
ErrorsOf(e) == {calls[e].callbackArgs[i].error : i \in DOMAIN calls[e].callbackArgs}

(* C2, as amended: under a configuration with a finite limit L, once the   *)
(* bytes the engine received (after decompression) exceed L the outcome is *)
(* the 413 entity.too.large error, never a success and never another       *)
(* error.                                                                  *)
C2_ReceivedOverLimitIs413 ==
  \A e \in Engs :
    (Reading(e) /\ engines[e].limit # NULL
       /\ engines[e].received > engines[e].limit)
    => calls[e].callbackArgs = <<[error |-> EntityTooLarge, body |-> NoBody]>>

\* a compressed request whose decompressed bytes exceeded the limit
C2_Witness ==
  \E e \in Engs :
    /\ engines[e].stream = "zlib"
    /\ engines[e].limit # NULL
    /\ engines[e].received > engines[e].limit
    /\ ErrorsOf(e) = {EntityTooLarge}

(* C2, as claimed: under a configuration with a finite limit L, if the     *)
(* declared Content-Length exceeds L or the bytes received exceed L, the   *)
(* outcome is always the 413 entity.too.large error.                       *)
C2_DeclaredOrReceivedOverLimitIs413 ==
  \A e \in Engs :
    (Reading(e) /\ engines[e].limit # NULL
       /\ (engines[e].contentLength > engines[e].limit
            \/ engines[e].received > engines[e].limit))
    => ErrorsOf(e) \subseteq {EntityTooLarge}


-----------------------------------------------------------------------------
(* The stages of the dispatcher, on the media type and the charset it      *)
(* determined for the request.                                             *)

RequestOf(e) == requests[calls[e].req]

Matches(c, rq, i) == matchAnyType(c.parsers[i].matcher, mediaTypeOf(c, rq))

AcceptsCharset(c, rq, i) ==
  matchCharsetEncoding(c.parsers[i].encodings, encodingOf(c, rq),
                       c.availableBufferEncodingNames, c.parsers[i].defaultEncoding)

\* a content-encoding other than identity is accepted by inflate: true when a
\* decompressor is registered for it, else when the list names it; identity
\* passes the selection and is checked by the engine against the registry
AcceptsEncoding(c, rq, i) ==
  \/ contentEncodingOf(rq) = "identity"
  \/ c.parsers[i].inflate.kind = "true"
       /\ Includes(c.availableDecompressorNames, contentEncodingOf(rq))
  \/ c.parsers[i].inflate.kind = "list"
       /\ Includes(c.parsers[i].inflate.list, contentEncodingOf(rq))

LengthMissing(c, rq) == c.requireContentLength /\ contentLengthOf(rq) = NULL

ContentTypeInvalid(c, rq) == parsesContentType(c, rq) /\ contentTypeParseThrows(rq)

MediaTypeUnsupported(c, rq) == ~\E i \in DOMAIN c.parsers : Matches(c, rq, i)

CharsetUnsupported(c, rq) ==
  ~\E i \in DOMAIN c.parsers : Matches(c, rq, i) /\ AcceptsCharset(c, rq, i)

EncodingUnsupported(c, rq) ==
  ~\E i \in DOMAIN c.parsers :
     Matches(c, rq, i) /\ AcceptsCharset(c, rq, i) /\ AcceptsEncoding(c, rq, i)

\* GET or DELETE, or neither a content-length nor a transfer-encoding header
BodilessRequest(rq) ==
  \/ BodilessMethod(rq.method)
  \/ Header(rq, "content-length") = UNDEF /\ Header(rq, "transfer-encoding") = UNDEF

Success(body) == [error |-> NoError, body |-> body]
Failure(status, type) == [error |-> createError(status, type), body |-> NoBody]

EmptyValues(c) == {c.parsers[i].emptyResponse : i \in DOMAIN c.parsers} \cup {NoBody}

NoBodyExpected(rq) ==
  \/ Header(rq, "transfer-encoding") = UNDEF /\ contentLengthOf(rq) = NULL
  \/ BodilessMethod(rq.method)

\* the error of the first stage the request fails, NoError when it fails none
StageError(c, rq) ==
  IF LengthMissing(c, rq) THEN createError(411, "contentLength.missing")
  ELSE IF ContentTypeInvalid(c, rq)
  THEN IF BodilessMethod(rq.method) THEN NoError
       ELSE createError(400, "mediaType.invalid")
  ELSE IF MediaTypeUnsupported(c, rq) THEN createError(415, "mediaType.unsupported")
  ELSE IF CharsetUnsupported(c, rq) THEN createError(415, "charset.unsupported")
  ELSE IF ~NoBodyExpected(rq) /\ EncodingUnsupported(c, rq)
  THEN createError(415, "encoding.unsupported")
  ELSE NoError

(* C4: the dispatcher evaluates content-length policy, Content-Type parse, *)
(* media-type match, charset match, content-encoding match in this order   *)
(* and the first stage that fails alone determines the error (411          *)
(* contentLength.missing, 400 mediaType.invalid, 415 mediaType.unsupported,*)
(* 415 charset.unsupported, 415 encoding.unsupported): charset.unsupported *)
(* when charset and content-encoding are both unsatisfiable; the request   *)
(* that fails a stage gets no engine, decompressor, parser or verify call. *)
C4_FirstFailingStage ==
  \A e \in Engs :
    (calls[e].dispatched /\ StageError(config, RequestOf(e)) # NoError) =>
      /\ calls[e].callbackArgs =
           <<[error |-> StageError(config, RequestOf(e)), body |-> NoBody]>>
      /\ ~engines[e].started
      /\ e \notin reqState[calls[e].req].pipes
      /\ engines[e].parserCalls = 0
      /\ engines[e].verifyCalls = 0

\* a request with a body whose charset and whose content-encoding are both
\* unsatisfiable was answered charset.unsupported
C4_Witness ==
  \E e \in Engs :
    /\ calls[e].dispatched
    /\ ~NoBodyExpected(RequestOf(e))
    /\ ~ContentTypeInvalid(config, RequestOf(e))
    /\ CharsetUnsupported(config, RequestOf(e))
    /\ \A i \in DOMAIN config.parsers : ~AcceptsEncoding(config, RequestOf(e), i)
    /\ calls[e].callbackArgs = <<Failure(415, "charset.unsupported")>>


(* C5: when two requests handled by the same middleware are in flight at   *)
(* once and their data and end events interleave, each request's decoded   *)
(* result equals the result it would get if processed alone: request 2,    *)
(* whose body is ASCII bytes only, is decoded to exactly the characters of *)
(* the bytes it sent, whatever request 1 left in its decoder.              *)
C5_DecodedAsIfAlone ==
  \A e \in Engs :
    (calls[e].req = 2 /\ calls[e].callbackArgs # <<>>
       /\ calls[e].callbackArgs[1].error = NoError) =>
      calls[e].callbackArgs[1].body \in
        {EmptyObject, [kind |-> "parsed", value |-> [i \in 1..engines[e].received |-> "a"]]}


\* configuration i matches the media type, accepts the charset and accepts
\* the content-encoding of the request
Satisfies(c, rq, i) ==
  Matches(c, rq, i) /\ AcceptsCharset(c, rq, i) /\ AcceptsEncoding(c, rq, i)

(* C6: for every request with a body the configuration handed to the       *)
(* engine is the first one in declaration order among the configurations   *)
(* whose matcher matches the media type, whose encodings policy accepts    *)
(* the charset and whose inflate policy accepts the content-encoding; no   *)
(* later configuration is used when an earlier one satisfies all three.    *)
C6_FirstSatisfyingConfiguration ==
  \A e \in Engs :
    engines[e].started =>
      /\ engines[e].parseConfiguration \in DOMAIN config.parsers
      /\ Satisfies(config, RequestOf(e), engines[e].parseConfiguration)
      /\ \A j \in 1..(engines[e].parseConfiguration - 1) :
           ~Satisfies(config, RequestOf(e), j)

\* a compressed request that two configurations satisfy, an earlier one and
\* a later one, with a configuration it does not satisfy between them
C6_Witness ==
  \E e \in Engs :
    /\ engines[e].started
    /\ contentEncodingOf(RequestOf(e)) = "gzip"
    /\ \E j, k \in DOMAIN config.parsers :
         /\ engines[e].parseConfiguration < j /\ j < k
         /\ ~Satisfies(config, RequestOf(e), j)
         /\ Satisfies(config, RequestOf(e), k)

(* C7: if the request carries a Content-Type header, the media type and    *)
(* charset used for matching are those of that header, also when a default *)
(* content type is configured: a request whose header names a media type   *)
(* that no configuration matches is answered 415 mediaType.unsupported.    *)
C7_HeaderContentTypeUsed ==
  \A e \in Engs :
    (/\ calls[e].dispatched
     /\ ~LengthMissing(config, RequestOf(e))
     /\ ~contentTypeParseThrows(RequestOf(e))
     /\ \A i \in DOMAIN config.parsers :
          ~matchAnyType(config.parsers[i].matcher, contentTypeParse(RequestOf(e)).type))
    => calls[e].callbackArgs = <<Failure(415, "mediaType.unsupported")>>

(* C8: for every content-encoding, identity or a registered decompressor,  *)
(* if the connection's aborted event occurs before the engine has          *)
(* completed, the completion callback receives the 400 request.aborted     *)
(* error: once the request is aborted every engine reading it is complete. *)
C8_AbortedCompletesEngine ==
  \A e \in Engs :
    (Reading(e) /\ reqState[calls[e].req].aborted) =>
      /\ engines[e].complete
      /\ Outcomes(e) = 1

\* the request is paused and will not be resumed: it is piped into
\* decompressors that are all paused, or read by nobody
Stalled(r) ==
  /\ reqState[r].flowing = "false"
  /\ \A e \in reqState[r].pipes : ~engines[e].zFlowing /\ ~engines[e].zDestroyed

(* C9: after the engine fails a request whose body is still arriving, the  *)
(* remaining bytes are still consumed to the end of the stream for every   *)
(* content-encoding: while the error waits for the request to finish and   *)
(* the client has bytes left to send, the request is not left paused.      *)
C9_FailedRequestKeepsDraining ==
  \A e \in Engs :
    (/\ calls[e].onFinished # <<>>
     /\ reqState[calls[e].req].left > 0
     /\ ~ReqFinished(reqState[calls[e].req]))
    => ~Stalled(calls[e].req)

(* C10: each invocation of the middleware on a request calls next at most  *)
(* once, and an invocation on a request the middleware has already         *)
(* processed (req._body set) does not dispatch the request a second time.  *)
C10_NextOnceNoSecondDispatch ==
  \A e \in Engs :
    /\ Len(calls[e].nextArgs) <= 1
    /\ (\E e2 \in 1..(e - 1) : calls[e2].req = calls[e].req /\ calls[e].req # 0)
         => ~calls[e].dispatched


(* C11: after the engine has attached its stream listeners no exception    *)
(* escapes one of its event handlers: every failure arising while handling *)
(* a data or end event, a throwing onData or transform of a user-supplied  *)
(* charset decoder included, is delivered through the completion callback. *)
C11_NoExceptionEscapes ==
  \A e \in Engs : engines[e].escaped = 0


\* the status codes and the type tags of the errors the middleware creates
StatusCodes == {400, 403, 411, 413, 415}

Taxonomy ==
  {"mediaType.invalid", "request.aborted", "header.check", "end.of.file",
   "request.size.invalid", "entity.parse.failed", "entity.verify.failed",
   "contentLength.missing", "entity.too.large", "parameters.too.many",
   "mediaType.unsupported", "charset.unsupported", "encoding.unsupported",
   "decompression.failed", "unsupported.content.encoding"}

\* the errors invocation e has passed to next
ErrorsPassedToNext(e) ==
  {calls[e].nextArgs[i] : i \in DOMAIN calls[e].nextArgs} \ {NoError}

InflateAllowsIdentity(inflate) ==
  inflate.kind = "true" \/ Includes(inflate.list, "identity")

(* C13: a request with a body whose content-encoding is identity is        *)
(* decoded only if the configuration selected for it has inflate policy    *)
(* true or lists "identity"; if its concrete inflate list does not contain *)
(* "identity" the request is rejected with a 415, whatever the other       *)
(* configurations allow.                                                   *)
C13_IdentityNeedsSelectedInflate ==
  \A e \in Engs :
    (engines[e].started /\ engines[e].contentEncoding = "identity"
       /\ ~InflateAllowsIdentity(config.parsers[engines[e].parseConfiguration].inflate))
    => /\ ~Reading(e)
       /\ \A err \in ErrorsOf(e) : err.status = 415


\* the engine of invocation e could not obtain its stream: it returned
\* before registering its listeners
StreamFailed(e) == engines[e].started /\ engines[e].sync

\* the errors done has deferred to the next tick for invocation e
DeferredErrorsOf(e) == {ticks[i].err : i \in {j \in DOMAIN ticks : ticks[j].eng = e}}

(* C14: when the engine cannot obtain the decompressor stream, including   *)
(* the case where identity is requested but not available, the error       *)
(* delivered to the completion callback has status 415 and type            *)
(* decompression.failed.                                                   *)
C14_DecompressionFailedType ==
  \A e \in Engs :
    StreamFailed(e) =>
      ErrorsOf(e) \cup DeferredErrorsOf(e) = {createError(415, "decompression.failed")}

(* C15: a failure to obtain the decompressor stream never throws to the    *)
(* caller of the engine and the completion callback is not invoked before  *)
(* the engine call returns: the one outcome is deferred, and the callback  *)
(* is invoked once, by a later tick.                                       *)
C15_StreamFailureDeferred ==
  [][\A e \in Engs :
       (engines'[e].started /\ engines'[e].sync) =>
         /\ engines'[e].escaped = 0
         /\ Outcomes(e)' = 1
         /\ Len(calls'[e].callbackArgs) > Len(calls[e].callbackArgs) =>
              /\ StreamFailed(e)
              /\ ticks # <<>> /\ Head(ticks).eng = e
              /\ ticks' = Tail(ticks)]_vars

\* the callback of an engine that could not obtain its stream has been invoked
C15_Witness ==
  \E e \in Engs :
    /\ StreamFailed(e)
    /\ Len(calls[e].callbackArgs) = 1
    /\ calls[e].callbackArgs[1].error.status = 415

C17_ConfigurationRequiresContentLength ==
  \A e \in Engs :
    LET rq == RequestOf(e)
        parseConfiguration == parseConfigurationOf(config, rq)
    IN  (/\ calls[e].dispatched
         /\ contentLengthOf(rq) = NULL
         /\ ~ContentTypeInvalid(config, rq)
         /\ parseConfiguration # 0
         /\ config.parsers[parseConfiguration].requireContentLength
         /\ Len(calls[e].callbackArgs) > 0)
        => calls[e].callbackArgs[1] = Failure(411, "contentLength.missing")


\* the error made of what the verify function threw
VerifyFailure(err) ==
  Failure(IF err.status # 0 THEN err.status ELSE 403,
          IF err.type # UNDEF THEN err.type ELSE "entity.verify.failed")

(* C18: the verify function is invoked at most once per request and only   *)
(* after the parser function has returned successfully on a non-empty      *)
(* body; if it throws, the outcome is the error with status 403 and type   *)
(* entity.verify.failed, the thrown error's own status or type taking      *)
(* precedence, and the request never ends in success.                      *)
C18_VerifyOnceAfterParser ==
  /\ \A r \in Reqs :
       Cardinality({e \in Engs : calls[e].req = r /\ engines[e].verifyCalls > 0}) <= 1
  /\ \A e \in Engs :
       /\ engines[e].verifyCalls <= 1
       /\ engines[e].verifyCalls = 1 =>
            /\ engines[e].received > 0
            /\ engines[e].parserThrew = NoError
            /\ config.parsers[engines[e].parseConfiguration].parser
                 => engines[e].parserCalls = 1
       /\ engines[e].verifyThrew # NoError =>
            /\ engines[e].verifyCalls = 1
            /\ calls[e].callbackArgs = <<VerifyFailure(engines[e].verifyThrew)>>

\* a verify function threw an error with a type of its own and no status,
\* after the parser had parsed a body: 403 with that type
C18_Witness ==
  \E e \in Engs :
    /\ engines[e].verifyThrew = OwnTypeThrown
    /\ engines[e].parserCalls = 1
    /\ engines[e].received > 0
    /\ calls[e].callbackArgs = <<Failure(403, "foo.bar")>>


\* the error made of what the parser function threw
ParseFailure(err) ==
  Failure(IF err.status # 0 THEN err.status ELSE 400,
          IF err.type # UNDEF THEN err.type ELSE "entity.parse.failed")

\* the payload onEnd hands to the parser function, on the chunks engine e
\* holds before the end event: the text of the chunked encoder with what its
\* onEnd flushes, the transformed buffer of an unchunked one, else the buffer
DecodedPayload(e) ==
  LET eng == engines[e]
      collected == Flatten(eng.chunks)
  IN  IF eng.bufferEncodingIsStreamDecoder
      THEN collected \o encoderOnEnd(eng.bufferEncoding, decoder).out
      ELSE IF config.parsers[eng.parseConfiguration].encodings.kind # "undefined"
              /\ eng.bufferEncoding # UNDEF
      THEN latin1Decode(collected)
      ELSE collected

(* C19: if the configured parser function throws, the outcome is an error  *)
(* carrying the thrown error's status and type when present and otherwise  *)
(* status 400 and type entity.parse.failed, the error's body field holds   *)
(* the decoded payload, and the verify function is not invoked.            *)
C19_ParserThrowKeepsPayload ==
  [][\A e \in Engs :
       (engines[e].parserThrew = NoError /\ engines'[e].parserThrew # NoError) =>
         /\ calls'[e].callbackArgs =
              Append(calls[e].callbackArgs, ParseFailure(engines'[e].parserThrew))
         /\ engines'[e].errorBody = [kind |-> "decoded", value |-> DecodedPayload(e)]
         /\ engines'[e].verifyCalls = 0]_vars

\* the parser of a configuration with a verify function threw an error
\* without status and type on a body of one byte
C19_Witness ==
  \E e \in Engs :
    /\ engines[e].parserThrew = PlainThrown
    /\ config.parsers[engines[e].parseConfiguration].verify
    /\ engines[e].received = 1
    /\ engines[e].errorBody = [kind |-> "decoded", value |-> <<"a">>]
    /\ engines[e].verifyCalls = 0
    /\ calls[e].callbackArgs = <<Failure(400, "entity.parse.failed")>>


(* C20: calling the joiner with no configuration and the default options   *)
(* yields exactly four resolved configurations in the fixed order          *)
(* x-www-form-urlencoded, json, text/plain, octet-stream, each with its    *)
(* built-in empty value ({}, {}, "", empty buffer) and limit 20480 bytes.  *)
C20_DefaultConfigurations ==
  config = DefaultMiddleware =>
    /\ Len(config.parsers) = 4
    /\ [i \in 1..4 |-> config.parsers[i].matcher] =
         << << <<"application", "x-www-form-urlencoded">> >>,
            << <<"application", "json">> >>,
            << <<"text", "plain">> >>,
            << <<"application", "octet-stream">> >> >>
    /\ [i \in 1..4 |-> config.parsers[i].emptyResponse] =
         <<EmptyObject, EmptyObject, EmptyString, EmptyBuffer>>
    /\ \A i \in 1..4 : config.parsers[i].limit = 20480

\* the middleware made without options and configurations has parsed a body
\* of two bytes
C20_Witness ==
  /\ config = DefaultMiddleware
  /\ \E e \in Engs :
       /\ engines[e].received = 2
       /\ engines[e].parserCalls = 1
       /\ calls[e].callbackArgs # <<>>
       /\ calls[e].callbackArgs[1].error = NoError


-----------------------------------------------------------------------------
(* Properties of the construction.                                         *)

\* the only entry of the caller's parser configurations and what it resolved to
EntryOf(c) == c.parserConfigurations.list[1]

OverlaysDefault(c) ==
  /\ c.parserConfigurations.kind = "list"
  /\ EntryOf(c).kind = "object"
  /\ EntryOf(c).matcher \in Range(DefaultParserConfigurations)

\* what the bare default media type of the entry resolves to under the options
ResolvedDefault(c) ==
  DefaultParser(EntryOf(c).matcher, LimitOf(MergedOptions(c.options).defaultLimit),
                getInflate(MergedOptions(c.options).inflate),
                MergedOptions(c.options).requireContentLength)

(* C21: for a configuration object whose matcher equals a default media    *)
(* type, parser: null yields a resolved configuration without a parser,    *)
(* emptyResponse: null yields one without an emptyResponse, and a field    *)
(* left unset takes the default media type's value (parser, emptyResponse) *)
(* or the global option (limit, inflate, requireContentLength); removing   *)
(* one field leaves all other resolved fields intact.                      *)
C21_RemoveOrInherit ==
  (caller.pc = "built" /\ OverlaysDefault(caller)) =>
    LET parser == EntryOf(caller)
        resolved == config.parsers[1]
        default == ResolvedDefault(caller)
    IN  /\ parser.parser = "null" => ~resolved.parser
        /\ parser.emptyResponse = NullValue => resolved.emptyResponse = NoBody
        /\ parser.parser = "unset" => resolved.parser = default.parser
        /\ parser.emptyResponse = UnsetValue =>
             resolved.emptyResponse = default.emptyResponse
        /\ parser.limit = UnsetLimit => resolved.limit = default.limit
        /\ parser.inflate = Unset => resolved.inflate = default.inflate
        /\ parser.requireContentLength = "unset" =>
             resolved.requireContentLength = default.requireContentLength
        /\ parser = [ParserConfiguration(parser.matcher) EXCEPT !.parser = "null"]
             => resolved = [default EXCEPT !.parser = FALSE]
        /\ parser = [ParserConfiguration(parser.matcher) EXCEPT !.emptyResponse = NullValue]
             => resolved = [default EXCEPT !.emptyResponse = NoBody]

\* {matcher: 'application/json', parser: null} was resolved and a request was
\* answered with the decoded text, not with a parsed value
C21_Witness ==
  /\ caller.pc = "built"
  /\ OverlaysDefault(caller)
  /\ EntryOf(caller) = [ParserConfiguration("application/json") EXCEPT !.parser = "null"]
  /\ ~config.parsers[1].parser
  /\ config.parsers[1].emptyResponse = EmptyObject
  /\ calls[1].callbackArgs # <<>>
  /\ calls[1].callbackArgs[1].error = NoError
  /\ calls[1].callbackArgs[1].body.kind = "decoded"

(* C22: for a configuration object whose matcher equals a default media    *)
(* type, every field present and non-null in the object replaces the       *)
(* default's value in the resolved configuration; in particular a user-set *)
(* defaultEncoding is the resolved defaultEncoding whether or not the      *)
(* object also sets encodings.                                             *)
C22_SetFieldsReplaceDefault ==
  (caller.pc = "built" /\ OverlaysDefault(caller)) =>
    LET parser == EntryOf(caller)
        resolved == config.parsers[1]
    IN  /\ parser.parser = "fn" => resolved.parser
        /\ parser.emptyResponse = UserValue => resolved.emptyResponse = UserValue
        /\ parser.limit.kind # "unset" => resolved.limit = LimitOf(parser.limit)
        /\ parser.inflate.kind # "unset" => resolved.inflate = getInflate(parser.inflate)
        /\ parser.requireContentLength # "unset" =>
             resolved.requireContentLength = (parser.requireContentLength = "true")
        /\ parser.encodings.kind = "true" => resolved.encodings = True
        /\ parser.defaultEncoding # UNDEF =>
             resolved.defaultEncoding = parser.defaultEncoding

(* C23: a configuration's explicit numeric limit 0 resolves to a limit of  *)
(* 0 bytes and not to the global default limit, for entries overlaying a   *)
(* default media type as well as entries with an arbitrary matcher, so     *)
(* that any non-empty body handled under it fails with 413                 *)
(* entity.too.large.                                                       *)
C23_ZeroLimitIsZeroBytes ==
  (/\ caller.pc \in {"built", "altered"}
   /\ caller.parserConfigurations.kind = "list"
   /\ EntryOf(caller).kind = "object"
   /\ EntryOf(caller).limit = LimitNumber(0)) =>
    /\ config.parsers[1].limit = 0
    /\ \A e \in Engs :
         (Reading(e) /\ engines[e].received > 0) =>
           calls[e].callbackArgs = <<Failure(413, "entity.too.large")>>

(* C24: constructing with any configuration entry that sets                *)
(* defaultEncoding while encodings is false or null fails with a           *)
(* configuration error at construction time, whether the entry's matcher   *)
(* is a default media type or an arbitrary matcher.                        *)
C24_ContradictoryEncodingsThrow ==
  (/\ caller.pc # "start"
   /\ caller.parserConfigurations.kind = "list"
   /\ EntryOf(caller).kind = "object"
   /\ EntryOf(caller).defaultEncoding # UNDEF
   /\ EntryOf(caller).encodings.kind \in {"false", "null"}) =>
    /\ caller.pc = "thrown"
    /\ config.thrown = "When defaultEncoding is set, encoding can not be false or null."

\* the decompressor names the entries of the caller refer to: those of the
\* entry's inflate, or of the option inflate where the entry sets none
ReferencedDecompressors(c) ==
  LET global == MergedOptions(c.options).inflate
      entries == IF c.parserConfigurations.kind = "undefined"
                 THEN <<ParserConfiguration("application/json")>>
                 ELSE c.parserConfigurations.list
      inflateOf(i) == IF entries[i].kind = "object" /\ entries[i].inflate.kind # "unset"
                      THEN entries[i].inflate ELSE global
  IN  UNION {Range(inflateOf(i).list) : i \in 1..Len(entries)}

\* the names that have a factory: the built-in ones and the user's
Factories(c) == Range(standardDecompressors) \cup Range(c.decompressors)

(* C25: after successful construction every decompressor name in any       *)
(* resolved configuration's concrete inflate list is in the available-name *)
(* list (and, except identity, has a factory in the registry); if some     *)
(* referenced name is supplied neither as a built-in nor by the user,      *)
(* construction throws naming the missing decompressors (unless it has     *)
(* thrown on the configurations before the decompressors were looked at).  *)
C25_InflateNamesAvailable ==
  /\ caller.pc \in {"built", "altered"} =>
       \A i \in 1..Len(config.parsers) :
         config.parsers[i].inflate.kind = "list" =>
           \A name \in Range(config.parsers[i].inflate.list) :
             /\ name \in Range(config.availableDecompressorNames)
             /\ name # "identity" => name \in Factories(caller)
  /\ (caller.pc \in {"built", "thrown"}
        /\ ReferencedDecompressors(caller) \ ({"identity"} \cup Factories(caller)) # {}) =>
       /\ caller.pc = "thrown"
       /\ \/ config.thrown = "When defaultEncoding is set, encoding can not be false or null."
          \/ /\ config.thrown =
                  "The following decompressors in the parse configuration are not supplied"
             /\ Range(config.missing) =
                  ReferencedDecompressors(caller) \ ({"identity"} \cup Factories(caller))

\* {inflate: ['identity', 'lzw']} with the user's decompressor lzw was built
\* and lzw is available
C25_Witness ==
  /\ caller.pc = "built"
  /\ caller.decompressors = <<"lzw">>
  /\ caller.parserConfigurations.kind = "list"
  /\ EntryOf(caller).inflate = List(<<"identity", "lzw">>)
  /\ config.parsers[1].inflate = List(<<"identity", "lzw">>)
  /\ config.availableDecompressorNames = <<"identity", "lzw">>
  /\ calls[1].callbackArgs # <<>>

\* the charset names the resolved configurations refer to, with the names of
\* their alias groups: defaultEncoding and the names of a concrete encodings
\* list; a configuration whose encodings is not a list refers to Node's names
ReferencedEncodings(c) ==
  UNION {Range(VariationsOf(c.encodingVariations, name)) :
           name \in UNION {(IF c.parsers[i].defaultEncoding # UNDEF
                            THEN {c.parsers[i].defaultEncoding} ELSE {})
                             \cup (IF c.parsers[i].encodings.kind = "list"
                                   THEN Range(c.parsers[i].encodings.list)
                                   ELSE Range(nodeBufferEncodings)) :
                           i \in {j \in 1..Len(c.parsers) :
                                    \/ c.parsers[j].encodings.kind # "undefined"
                                    \/ c.parsers[j].defaultEncoding # UNDEF}}}

C27_TrueAcceptsBackedCharsets ==
  caller.pc \in {"built", "altered"} =>
    \A i \in 1..Len(config.parsers) :
      config.parsers[i].encodings = True =>
        \A charset \in Range(config.backed) :
          matchCharsetEncoding(config.parsers[i].encodings, charset,
                               config.availableBufferEncodingNames,
                               config.parsers[i].defaultEncoding)

(* C28: for all charset names a and b in the same user-declared            *)
(* equivalence group, every configuration that accepts a request declaring *)
(* charset a also accepts a request declaring charset b, both when the     *)
(* configuration's encodings is a concrete list (which is alias-closed)    *)
(* and when it is true.  The dispatcher compares the charset of the        *)
(* request in lower case.                                                  *)
C28_GroupMembersAcceptedAlike ==
  caller.pc \in {"built", "altered"} =>
    \A g \in 1..Len(caller.bufferEncodings) :
      \A a, b \in Range(caller.bufferEncodings[g].encodings) :
        \A i \in 1..Len(config.parsers) :
          matchCharsetEncoding(config.parsers[i].encodings, toLowerCase(a),
                               config.availableBufferEncodingNames,
                               config.parsers[i].defaultEncoding)
          => matchCharsetEncoding(config.parsers[i].encodings, toLowerCase(b),
                                  config.availableBufferEncodingNames,
                                  config.parsers[i].defaultEncoding)

\* the lists of up to MaxNames encoding names, as a caller may write them
MaxNames == 2

EncodingNames == {"utf8", "UTF-8", "latin1", "x-b", "X-A"}

EncodingLists == UNION {[1..n -> EncodingNames] : n \in 0..MaxNames}

(* C29: for every list L of encoding names and every EncodingVariations    *)
(* table produced by getEncodingVariations (built-in groups plus any user  *)
(* encoders), normalizeEncodings(normalizeEncodings(L)) equals             *)
(* normalizeEncodings(L).                                                  *)
C29_NormalizeIdempotent ==
  (caller.pc = "built" /\ calls[1].req = 0) =>
    \A L \in EncodingLists :
      normalizeEncodings(normalizeEncodings(L, config.encodingVariations),
                         config.encodingVariations)
        = normalizeEncodings(L, config.encodingVariations)

(* C30: the resolved configuration is fixed at construction: mutating the  *)
(* options object after the middleware was created does not change the     *)
(* limit or any other setting applied to later requests.                   *)
C30_ConfigurationFixed ==
  [][caller.pc \in {"built", "altered"} => config' = config]_vars

(* C31: for requests with method GET or DELETE no matcher predicate        *)
(* function of any configuration is invoked, whether or not the request    *)
(* carries a Content-Type header, so a throwing predicate never affects    *)
(* such a request.                                                         *)
C31_NoPredicateOnBodilessMethod ==
  \A e \in Engs :
    (calls[e].req # 0 /\ BodilessMethod(RequestOf(e).method)) =>
      /\ calls[e].predicateCalls = 0
      /\ ~calls[e].threw


\* the stream engine e listens on emits 'end' in this step, while the engine
\* is still waiting for its outcome
EndsHere(e) ==
  /\ Reading(e) /\ engines[e].attached /\ ~engines[e].complete
  /\ \/ engines[e].stream = "req"
          /\ ~reqState[calls[e].req].endEmitted /\ reqState'[calls[e].req].endEmitted
     \/ engines[e].stream = "zlib"
          /\ ~engines[e].zEndEmitted /\ engines'[e].zEndEmitted

\* the request declares a Content-Length, its content-encoding is identity
\* and the engine received another number of bytes
SizeMismatch(e) ==
  /\ Header(RequestOf(e), "content-length") # UNDEF
  /\ contentEncodingOf(RequestOf(e)) = "identity"
  /\ engines[e].received # parseInt(Header(RequestOf(e), "content-length"))

\* the step calls the completion callback of invocation e with `outcome`
Completes(e, outcome) == calls'[e].callbackArgs = Append(calls[e].callbackArgs, outcome)

SizeInvalid == Failure(400, "request.size.invalid")

(* C32: on end of stream without error the engine decides in this order:   *)
(* a declared Content-Length under content-encoding identity that differs  *)
(* from the bytes received gives 400 request.size.invalid; otherwise zero  *)
(* bytes received give success with the configuration's emptyResponse,     *)
(* with neither parser nor verify invoked; otherwise the body is decoded   *)
(* and parsed.  The length is never checked when content-encoding is not   *)
(* identity.                                                               *)
C32_EndOfStreamOrder ==
  [][\A e \in Engs :
       EndsHere(e) =>
         LET parseConfiguration == config.parsers[engines[e].parseConfiguration]
         IN  IF SizeMismatch(e) THEN Completes(e, SizeInvalid)
             ELSE IF engines[e].received = 0
             THEN /\ Completes(e, Success(parseConfiguration.emptyResponse))
                  /\ engines'[e].parserCalls = engines[e].parserCalls
                  /\ engines'[e].verifyCalls = engines[e].verifyCalls
             ELSE /\ ~Completes(e, SizeInvalid)
                  /\ \/ engines'[e].escaped = engines[e].escaped + 1
                     \/ /\ Len(calls'[e].callbackArgs) = Len(calls[e].callbackArgs) + 1
                        /\ parseConfiguration.parser =>
                             engines'[e].parserCalls = engines[e].parserCalls + 1]_vars


\* the request got through the stages before the selection by content-encoding
PassedMatching(c, rq) ==
  /\ ~LengthMissing(c, rq) /\ ~ContentTypeInvalid(c, rq)
  /\ ~MediaTypeUnsupported(c, rq) /\ ~CharsetUnsupported(c, rq)

\* the configurations accepting media type, charset and content-encoding
Accepting(c, rq) ==
  {i \in DOMAIN c.parsers : Matches(c, rq, i) /\ AcceptsCharset(c, rq, i) /\ AcceptsEncoding(c, rq, i)}

\* the empty value of the first of them, no value when there is none
EmptyValueFor(c, rq) ==
  IF Accepting(c, rq) = {} THEN NoBody
  ELSE c.parsers[CHOOSE i \in Accepting(c, rq) : \A j \in Accepting(c, rq) : i <= j].emptyResponse

(* C33: a request that passed media-type and charset matching and is       *)
(* bodiless (no transfer-encoding and no content-length, or method GET or  *)
(* DELETE) always succeeds, with the emptyResponse of the first            *)
(* configuration accepting the content-encoding or with no value when none *)
(* accepts it, never with encoding.unsupported; the engine is not started  *)
(* and the stream is not read.                                             *)
C33_BodilessSucceedsWithEmptyValue ==
  \A e \in Engs :
    (calls[e].dispatched /\ BodilessRequest(RequestOf(e))
       /\ PassedMatching(config, RequestOf(e)))
    => /\ calls[e].callbackArgs = <<Success(EmptyValueFor(config, RequestOf(e)))>>
       /\ ~engines[e].started
       /\ ~engines[e].attached
       /\ engines[e].received = 0
       /\ e \notin reqState[calls[e].req].pipes

\* a DELETE with a transfer-encoding and a content-encoding no configuration
\* accepts was answered with success and no value
C33_Witness ==
  \E e \in Engs :
    /\ calls[e].dispatched
    /\ PassedMatching(config, RequestOf(e))
    /\ RequestOf(e).method = "DELETE"
    /\ Header(RequestOf(e), "transfer-encoding") = "chunked"
    /\ EncodingUnsupported(config, RequestOf(e))
    /\ calls[e].callbackArgs = <<Success(NoBody)>>


(* C34: the engine fails with 413 entity.too.large exactly when the bytes  *)
(* delivered by the stream it reads (the decompressed ones of a compressed *)
(* body) strictly exceed the limit: a body of exactly limit bytes is       *)
(* accepted, and with no limit (null, or a limit like Infinity that no     *)
(* body reaches) no body is rejected for its size.                         *)
C34_TooLargeIffOverLimit ==
  \A e \in Engs :
    Reading(e) =>
      /\ (EntityTooLarge \in ErrorsOf(e) \cup DeferredErrorsOf(e))
           <=> (engines[e].limit # NULL /\ engines[e].received > engines[e].limit)
      /\ (engines[e].limit = NULL \/ engines[e].received <= engines[e].limit)
           => \A i \in DOMAIN calls[e].callbackArgs :
                calls[e].callbackArgs[i].error.type # "entity.too.large"

\* a compressed body whose decompressed bytes are exactly the limit was
\* read to its end and accepted
C34_Witness ==
  \E e \in Engs :
    /\ engines[e].stream = "zlib"
    /\ engines[e].zEndEmitted
    /\ engines[e].limit # NULL
    /\ engines[e].received = engines[e].limit
    /\ Len(calls[e].callbackArgs) = 1
    /\ calls[e].callbackArgs[1].error = NoError
    /\ calls[e].callbackArgs[1].body # NoBody


\* the stream engine e listens on emits 'close' in this step
ClosesHere(e) ==
  /\ engines[e].attached
  /\ \/ engines[e].stream = "req"
          /\ ~reqState[calls[e].req].closed /\ reqState'[calls[e].req].closed
     \/ engines[e].stream = "zlib" /\ ~engines'[e].attached

(* C35: after the close event of the stream the engine reads, the          *)
(* accumulated chunks and the verification buffer of the engine are empty  *)
(* and none of its listeners remains attached, on every path including     *)
(* limit, parse and verify failures.                                       *)
C35_CloseClearsRequestState ==
  [][\A e \in Engs :
       ClosesHere(e) =>
         /\ engines'[e].chunks = <<>>
         /\ engines'[e].verifyBuffer = <<>>
         /\ ~engines'[e].attached]_vars


(* C36: construction does not modify the objects passed to it: after       *)
(* building one middleware the user's options object and decompressor map  *)
(* are unchanged, so a second middleware built from the same objects has   *)
(* the same available decompressors and the same default content type as   *)
(* one built from fresh copies.                                            *)
C36_ConstructionLeavesArguments ==
  [][/\ (caller.pc = "start" /\ caller'.pc # "start") =>
          /\ caller'.options = caller.options
          /\ caller'.decompressors = caller.decompressors
     /\ (caller.pc = "built" /\ caller'.pc \in {"rebuilt", "thrown"}) =>
          LET fresh == MiddlewareOf(caller'.via, caller.fresh.options,
                                    caller'.parserConfigurations, caller.bufferEncodings,
                                    caller.fresh.decompressors)
          IN  /\ config'.thrown = fresh.thrown
              /\ config'.availableDecompressorNames = fresh.availableDecompressorNames
              /\ config'.defaultContentType = fresh.defaultContentType]_vars


\* the first outcome of invocation e is the error of the given type
FailedWith(e, type) ==
  /\ calls[e].callbackArgs # <<>>
  /\ calls[e].callbackArgs[1].error # NoError
  /\ calls[e].callbackArgs[1].error.type = type

(* C37: the decoded value of a request depends only on its own bytes and   *)
(* the resolved configuration: an earlier request on the same middleware   *)
(* that ended in an error (limit exceeded, size mismatch, abort) after     *)
(* delivering part of its body leaves no pending decoder state that alters *)
(* the decoded text of a later request.                                    *)
C37_EarlierFailureLeavesNoDecoderState ==
  \A type \in {"entity.too.large", "request.size.invalid", "request.aborted"} :
    (/\ calls[1].req = 1 /\ FailedWith(1, type)
     /\ calls[2].req = 2 /\ calls[2].callbackArgs # <<>>
     /\ calls[2].callbackArgs[1].error = NoError)
    => calls[2].callbackArgs[1].body \in
         {EmptyObject,
          [kind |-> "parsed", value |-> [i \in 1..engines[2].received |-> "a"]]}


(* C38: every request handed to the engine gets its completion callback:   *)
(* when the stream the engine listens on emits close, also without a       *)
(* preceding end, error or aborted event, the callback has been invoked    *)
(* (with an error in that case) by the time the engine has detached its    *)
(* listeners, so no request is left without an outcome.                    *)
C38_CallbackByClose ==
  [][\A e \in Engs :
       ClosesHere(e) =>
         /\ Outcomes(e)' >= 1
         /\ ~ReqFinished(reqState[calls[e].req]) =>
              /\ calls'[e].callbackArgs # <<>>
              /\ calls'[e].callbackArgs[1].error # NoError]_vars


LengthMissingError == createError(411, "contentLength.missing")

(* C39: a Content-Length header with value 0 counts as present: under the  *)
(* global requireContentLength policy a request is answered with 411       *)
(* contentLength.missing exactly when it has no Content-Length header, so  *)
(* a request with Content-Length: 0 is never rejected with 411.            *)
C39_ZeroLengthCountsAsPresent ==
  \A e \in Engs :
    calls[e].req # 0 =>
      /\ (LengthMissingError \in ErrorsOf(e)) <=>
           (config.requireContentLength /\ Header(RequestOf(e), "content-length") = UNDEF)
      /\ Header(RequestOf(e), "content-length") = "0" => LengthMissingError \notin ErrorsOf(e)


\* the names the user's encoders declare, as getAvailableBufferEncodings
\* compares them
Declared(bufferEncodings) ==
  {toLowerCase(name) : name \in Range(suppliedBufferEncodingsOf(bufferEncodings))}

(* C40: for a list of user encoders without duplicate aliases, every       *)
(* platform-native charset name that no user encoder declares is backed by *)
(* an encoder after construction, and construction with the default        *)
(* configurations does not throw: an encoder for "utf8" alone leaves       *)
(* "utf-8" available as an encoder for "utf-8" alone leaves "utf8".        *)
C40_UndeclaredNativeNamesBacked ==
  caller.pc # "start" =>
    /\ config.thrown = UNDEF
    /\ \A name \in Range(nodeBufferEncodings) \ Declared(caller.bufferEncodings) :
         name \in Range(config.backed)

=============================================================================
